---- MODULE Spec2Model ----
(***************************************************************************)
(* A model of the JobFindrAI backend: the LLM provider selection and       *)
(* fallback chain (LLMService), the job/resume match scoring               *)
(* (AIJobMatcherService), the REST handlers that reach the AI services,    *)
(* and the scheduled / manual job search over the in-memory storage.       *)
(*                                                                         *)
(* Text is modelled as a sequence of one-character strings, so that        *)
(* toLowerCase(), includes() and the \b-anchored regular expressions of    *)
(* the source are computed rather than assumed.                            *)
(***************************************************************************)
EXTENDS Integers, Sequences, FiniteSets, TLC

VARIABLES
    llmEnv,      \* outcomes of the external services one LLMService call meets
    llmCall,     \* the LLMService operation invoked and its arguments
    llmOut,      \* what that call settled to
    matchCall,   \* the analyzeJobMatch call: job, resume, the LLM's reply
    matchOut,    \* the JobMatchScore it returned
    storage,     \* MemStorage: its maps, each in insertion order
    isRunning,   \* ScheduledJobSearchService.isRunning
    intervalId,  \* ScheduledJobSearchService.intervalId (NoTimer for null)
    timers,      \* the interval timers registered and not cleared
    searches,    \* job searches awaiting their scrape
    performed,   \* number of job searches begun so far, scheduled and manual
    ticks,       \* number of interval callbacks fired so far
    console,     \* the last line a start or stop call of the service logged
    restReq,     \* the REST request being handled
    restRes,     \* the responses sent for it, in order
    applyCall,   \* the IntelligentApplicationService call made and its inputs
    applyOut,    \* what that call returned
    scrapeCall,  \* the scrapeAllJobBoards call: how the boards settled, the limit
    scrapeOut    \* what that call settled to

llmVars == <<llmEnv, llmCall, llmOut>>
matchVars == <<matchCall, matchOut>>
schedVars == <<isRunning, intervalId, timers, searches, performed, ticks, console>>
restVars == <<restReq, restRes>>
applyVars == <<applyCall, applyOut>>
scrapeVars == <<scrapeCall, scrapeOut>>
vars == <<llmVars, matchVars, storage, schedVars, restVars, applyVars, scrapeVars>>

None == [kind |-> "none"]

\* new MemStorage(): every map empty
EmptyStorage ==
    [ jobs |-> <<>>, resumes |-> <<>>, applications |-> <<>>,
      coverLetters |-> <<>>, automationLogs |-> <<>>, jobSearchConfig |-> None,
      systemConfig |-> None ]

\* intervalId = null
NoTimer == 0

\* the scheduler as constructed, no search in flight, no REST request in
\* progress
ServerIdle ==
    /\ isRunning = FALSE
    /\ intervalId = NoTimer
    /\ timers = {}
    /\ searches = <<>>
    /\ performed = 0
    /\ ticks = 0
    /\ console = ""
    /\ restReq = None
    /\ restRes = <<>>
    /\ applyCall = None
    /\ applyOut = None
    /\ scrapeCall = None
    /\ scrapeOut = None

(***************************************************************************)
(* Strings                                                                 *)
(***************************************************************************)

UpperCase == <<"A","B","C","D","E","F","G","H","I","J","K","L","M",
               "N","O","P","Q","R","S","T","U","V","W","X","Y","Z">>
LowerCase == <<"a","b","c","d","e","f","g","h","i","j","k","l","m",
               "n","o","p","q","r","s","t","u","v","w","x","y","z">>
Digits == {"0","1","2","3","4","5","6","7","8","9"}

\* String.prototype.toLowerCase, one character
LowerChar(c) ==
    IF \E i \in 1..26 : UpperCase[i] = c
    THEN LowerCase[CHOOSE i \in 1..26 : UpperCase[i] = c]
    ELSE c

\* String.prototype.toLowerCase
ToLowerCase(s) == [i \in 1..Len(s) |-> LowerChar(s[i])]

\* needle occurs in hay starting at index i (1-based)
OccursAt(hay, needle, i) ==
    /\ i >= 1
    /\ i + Len(needle) - 1 <= Len(hay)
    /\ \A k \in 1..Len(needle) : hay[i + k - 1] = needle[k]

\* String.prototype.includes
Includes(hay, needle) ==
    \E i \in 1..(Len(hay) + 1) : OccursAt(hay, needle, i)

\* \w of a JavaScript regular expression
IsWordChar(c) ==
    \/ \E i \in 1..26 : UpperCase[i] = c \/ LowerCase[i] = c
    \/ c \in Digits
    \/ c = "_"

\* \b of a JavaScript regular expression, between index i-1 and i of s
WordBoundaryAt(s, i) ==
    LET before == i > 1 /\ i - 1 <= Len(s) /\ IsWordChar(s[i - 1])
        after  == i >= 1 /\ i <= Len(s) /\ IsWordChar(s[i])
    IN  before # after

(***************************************************************************)
(* Promises: what an awaited call settles to                               *)
(***************************************************************************)

Resolved(v) == [status |-> "resolved", value |-> v]
Rejected == [status |-> "rejected", value |-> "Error"]

(***************************************************************************)
(* LLMService (server/services/llmService.ts)                              *)
(***************************************************************************)

\* The bodies a provider can answer with, by what JSON.parse makes of them.
ProviderBodies == {"prose", "json_skills", "json_no_skills", "json_null"}

\* The skills array inside a provider's "json_skills" answer.
ProviderSkills == << <<"G","o">> >>

\* openai.chat.completions.create for the real prompt: the request throws
\* (or the reply has no choices), the message content is null, or it carries
\* a body.
\* POST /api/generate on Ollama: fetch or response.json() throws, the JSON
\* has no "response" field (an error object), or the field carries a body.
\* POST to the Hugging Face inference API: fetch or response.json() throws,
\* the JSON is not an array with generated_text (an error object, a loading
\* notice), or generated_text carries a body.
\* What one call meets outside the process.  Only one provider's text is
\* ever returned by a call, so the answering providers share one body.
LLMEnvs ==
    [ OPENAI_API_KEY : BOOLEAN,
      openaiProbe    : {"ok", "throws"},
      ollamaTags     : {"ok", "not_ok", "throws"},
      openaiReply    : {"throws", "null_content", "body"},
      ollamaReply    : {"throws", "no_field", "body"},
      hfReply        : {"throws", "no_generated_text", "body"},
      hfAltReply     : {"throws", "no_generated_text", "body"},
      body           : ProviderBodies ]

\* The environment of the specifications that make no LLMService call.
NoLLMEnv ==
    [ OPENAI_API_KEY |-> FALSE, openaiProbe |-> "throws", ollamaTags |-> "throws",
      openaiReply |-> "throws", ollamaReply |-> "throws", hfReply |-> "throws",
      hfAltReply |-> "throws", body |-> "prose" ]

\* getAvailableProvider: the provider chosen and the requests it sent
getAvailableProviderOllamaFirst(env) ==
    IF env.ollamaTags = "ok"
    THEN [provider |-> "ollama", requests |-> <<"ollama:tags">>]
    ELSE IF env.OPENAI_API_KEY /\ env.openaiProbe = "ok"
    THEN [provider |-> "openai", requests |-> <<"ollama:tags", "openai:probe">>]
    ELSE [provider |-> "huggingface",
          requests |-> <<"ollama:tags">> \o
                       (IF env.OPENAI_API_KEY THEN <<"openai:probe">> ELSE <<>>)]

getAvailableProvider(env) ==
    LET probed == IF env.OPENAI_API_KEY THEN <<"openai:probe">> ELSE <<>>
    IN  IF env.OPENAI_API_KEY /\ env.openaiProbe = "ok"
        THEN [provider |-> "openai", requests |-> probed]
        ELSE IF env.ollamaTags = "ok"
        THEN [provider |-> "ollama", requests |-> probed \o <<"ollama:tags">>]
        ELSE [provider |-> "huggingface", requests |-> probed \o <<"ollama:tags">>]

\* response.choices[0].message.content || ""
generateWithOpenAI(env) ==
    [ result   |-> CASE env.openaiReply = "throws" -> Rejected
                     [] env.openaiReply = "null_content" -> Resolved("")
                     [] OTHER -> Resolved(env.body),
      requests |-> <<"openai:generate">> ]

\* data.response || ""
generateWithOllama(env) ==
    [ result   |-> CASE env.ollamaReply = "throws" -> Rejected
                     [] env.ollamaReply = "no_field" -> Resolved("")
                     [] OTHER -> Resolved(env.body),
      requests |-> <<"ollama:generate">> ]

\* the Mistral retry: every failure inside is caught, then the function throws
generateWithAlternativeHF(env) ==
    [ result   |-> IF env.hfAltReply = "body"
                   THEN Resolved(env.body)
                   ELSE Rejected,
      requests |-> <<"huggingface:mistral">> ]

generateWithHuggingFace(env) ==
    LET first == <<"huggingface:dialogpt">>
        alt   == generateWithAlternativeHF(env)
    IN  CASE env.hfReply = "throws" ->
               [result |-> Rejected, requests |-> first]
          [] env.hfReply = "body" ->
               [result |-> Resolved(env.body), requests |-> first]
          [] OTHER ->
               [result |-> alt.result, requests |-> first \o alt.requests]

\* The keywords getFallbackResponse looks for in the lower-cased prompt.
kw_skill == <<"s","k","i","l","l">>
kw_ats == <<"a","t","s">>
kw_keyword == <<"k","e","y","w","o","r","d">>
kw_cover_letter == <<"c","o","v","e","r"," ","l","e","t","t","e","r">>

\* A prompt is a fixed template with the caller's text spliced in: template
\* names the keywords that the template's own words contain, user is the
\* spliced text.  Every template puts a space or a line break around the
\* spliced text, so no keyword straddles the seam.
PromptIncludes(prompt, name, kw) ==
    name \in prompt.template \/ Includes(ToLowerCase(prompt.user), kw)

getFallbackResponse(prompt) ==
    CASE PromptIncludes(prompt, "skill", kw_skill) -> "canned_skills"
      [] PromptIncludes(prompt, "ats", kw_ats) -> "canned_ats"
      [] PromptIncludes(prompt, "keyword", kw_keyword) -> "canned_keyword"
      [] PromptIncludes(prompt, "cover letter", kw_cover_letter) -> "canned_cover_letter"
      [] OTHER -> "canned_apology"

CannedTexts == {"canned_skills", "canned_ats", "canned_keyword",
                "canned_cover_letter", "canned_apology"}

\* generateText with the provider's own failure passed on to the caller
generateTextNoCatch(env, prompt) ==
    LET chosen == getAvailableProvider(env)
        gen == CASE chosen.provider = "openai" -> generateWithOpenAI(env)
                 [] chosen.provider = "ollama" -> generateWithOllama(env)
                 [] OTHER -> generateWithHuggingFace(env)
    IN  [ status   |-> gen.result.status,
          value    |-> gen.result.value,
          provider |-> chosen.provider,
          threw    |-> gen.result.status = "rejected",
          requests |-> chosen.requests \o gen.requests ]

\* generateText: pick the provider, generate, fall back to canned text when
\* the generation throws
generateText(env, prompt) ==
    LET chosen == getAvailableProvider(env)
        gen == CASE chosen.provider = "openai" -> generateWithOpenAI(env)
                 [] chosen.provider = "ollama" -> generateWithOllama(env)
                 [] OTHER -> generateWithHuggingFace(env)
        threw == gen.result.status = "rejected"
    IN  [ status   |-> "resolved",
          value    |-> IF threw THEN getFallbackResponse(prompt)
                       ELSE gen.result.value,
          provider |-> chosen.provider,
          threw    |-> threw,
          requests |-> chosen.requests \o gen.requests ]

\* JSON.parse of a text, then reading .skills: the parse throws on text that
\* is not JSON, reading a property of null throws (threw), an object without
\* the field yields undefined (not defined).
ParsedSkills(text) ==
    CASE text = "json_skills" -> [threw |-> FALSE, defined |-> TRUE, skills |-> ProviderSkills]
      [] text = "canned_skills" ->
           [threw |-> FALSE, defined |-> TRUE,
            skills |-> << <<"J","a","v","a","S","c","r","i","p","t">>,
                          <<"R","e","a","c","t">>,
                          <<"N","o","d","e",".","j","s">>,
                          <<"P","y","t","h","o","n">>,
                          <<"S","Q","L">>,
                          <<"G","i","t">>,
                          <<"H","T","M","L">>,
                          <<"C","S","S">> >>]
      [] text \in {"json_no_skills", "canned_ats", "canned_keyword",
                   "canned_cover_letter"} ->
           [threw |-> FALSE, defined |-> FALSE, skills |-> <<>>]
      [] OTHER -> [threw |-> TRUE, defined |-> FALSE, skills |-> <<>>]

\* skillPatterns of extractSkillsFallback: each regular expression as its
\* literal alternatives, in the order the regex engine tries them.  All carry
\* the i flag and are anchored by \b on both sides.
skillPatterns == <<
    << <<"j","a","v","a","s","c","r","i","p","t">>, <<"j","s">> >>,
    << <<"r","e","a","c","t">> >>,
    << <<"n","o","d","e",".","j","s">>, <<"n","o","d","e","j","s">> >>,
    << <<"p","y","t","h","o","n">> >>,
    << <<"j","a","v","a">> >>,
    << <<"c","+","+">> >>,
    << <<"h","t","m","l">> >>,
    << <<"c","s","s">> >>,
    << <<"t","y","p","e","s","c","r","i","p","t">> >>,
    << <<"a","w","s">> >>,
    << <<"d","o","c","k","e","r">> >>,
    << <<"k","u","b","e","r","n","e","t","e","s">> >>,
    << <<"s","q","l">> >>,
    << <<"m","o","n","g","o","d","b">> >>,
    << <<"p","o","s","t","g","r","e","s","q","l">> >>,
    << <<"g","i","t">> >>,
    << <<"l","i","n","u","x">> >>,
    << <<"a","n","g","u","l","a","r">> >>,
    << <<"v","u","e">> >>
>>

\* one alternative of a pattern matches content at index i; lower is the
\* lower-cased content (the i flag)
AltMatchesAt(content, lower, alt, i) ==
    /\ OccursAt(lower, alt, i)
    /\ WordBoundaryAt(content, i)
    /\ WordBoundaryAt(content, i + Len(alt))

\* content.match(pattern): match[0] of the leftmost match, <<>> for null
Match(content, pattern) ==
    LET lower == ToLowerCase(content)
        hits == {i \in 1..Len(content) :
                    \E a \in 1..Len(pattern) :
                        AltMatchesAt(content, lower, pattern[a], i)}
    IN  IF hits = {} THEN <<>>
        ELSE LET i == CHOOSE h \in hits : \A g \in hits : h <= g
                 a == CHOOSE b \in 1..Len(pattern) :
                        /\ AltMatchesAt(content, lower, pattern[b], i)
                        /\ \A c \in 1..(b - 1) :
                              ~AltMatchesAt(content, lower, pattern[c], i)
             IN  SubSeq(content, i, i + Len(pattern[a]) - 1)

DefaultSkills == << <<"P","r","o","g","r","a","m","m","i","n","g">>,
                    <<"S","o","f","t","w","a","r","e"," ",
                      "D","e","v","e","l","o","p","m","e","n","t">> >>

\* extractSkillsFallback
extractSkillsFallback(content) ==
    LET found == [p \in 1..Len(skillPatterns) |-> Match(content, skillPatterns[p])]
        skills == SelectSeq(found, LAMBDA m : m # <<>>)
    IN  IF Len(skills) > 0 THEN skills ELSE DefaultSkills

\* The template of extractResumeSkills says "skills"; the resume is spliced in.
ExtractSkillsPrompt(resumeContent) ==
    [template |-> {"skill"}, user |-> resumeContent]

\* extractResumeSkills
extractResumeSkills(env, resumeContent) ==
    LET response == generateText(env, ExtractSkillsPrompt(resumeContent))
        parsed == ParsedSkills(response.value)
    IN  [ status   |-> "resolved",
          value    |-> IF parsed.threw \/ ~parsed.defined
                       THEN extractSkillsFallback(resumeContent)
                       ELSE parsed.skills,
          response |-> response ]

\* Resume texts the calls are tried on.
ResumeTexts == {
    <<"J","S"," ","a","n","d"," ","P","y","t","h","o","n">>,
    <<"n","o","d","e",".","j","s">>,
    <<"c","+","+"," ","j","a","v","a">>,
    <<"I"," ","l","i","k","e"," ","c","o","o","k","i","n","g">>,
    <<"A","T","S"," ","s","k","i","l","l","s">> }

\* The keywords the templates of the five LLMService features contain:
\* extractResumeSkills, checkATSCompatibility, performKeywordAnalysis,
\* getResumeOptimizationSuggestions, generateCoverLetter.
Prompts ==
    [ template : { {"skill"}, {"ats", "keyword"}, {"keyword"}, {},
                   {"cover letter"} },
      user : { <<"I"," ","l","i","k","e"," ","c","o","o","k","i","n","g">>,
               <<"A","T","S"," ","s","k","i","l","l","s">> } ]

LLMInit ==
    /\ llmEnv \in LLMEnvs
    /\ llmCall = None
    /\ llmOut = None
    /\ matchCall = None
    /\ matchOut = None
    /\ storage = EmptyStorage
    /\ ServerIdle

\* a caller invokes LLMService.generateText(prompt) and awaits it
GenerateTextCall(prompt) ==
    /\ llmCall = None
    /\ llmCall' = [kind |-> "generateText", prompt |-> prompt]
    /\ llmOut' = generateText(llmEnv, prompt)
    /\ UNCHANGED llmEnv

\* a caller invokes LLMService.extractResumeSkills(content) and awaits it
ExtractResumeSkillsCall(content) ==
    /\ llmCall = None
    /\ llmCall' = [kind |-> "extractResumeSkills", content |-> content]
    /\ llmOut' = extractResumeSkills(llmEnv, content)
    /\ UNCHANGED llmEnv

LLMNext ==
    \/ \E prompt \in Prompts : GenerateTextCall(prompt) /\ UNCHANGED <<matchVars, storage, schedVars, restVars, applyVars, scrapeVars>>
    \/ \E content \in ResumeTexts :
          ExtractResumeSkillsCall(content)
          /\ UNCHANGED <<matchVars, storage, schedVars, restVars, applyVars, scrapeVars>>

SpecLLM == LLMInit /\ [][LLMNext]_vars

(***************************************************************************)
(* Properties of LLMService, checked under SpecLLM                         *)
(***************************************************************************)

\* the generateText result of the call in progress, whichever entry point
LLMResponse ==
    IF llmCall.kind = "extractResumeSkills" THEN llmOut.response ELSE llmOut

Sent(request) ==
    \E i \in 1..Len(LLMResponse.requests) : LLMResponse.requests[i] = request

OpenAIAvailable == llmEnv.OPENAI_API_KEY /\ llmEnv.openaiProbe = "ok"
OllamaAvailable == llmEnv.ollamaTags = "ok"

\* the generation of the provider in use throws, read off the environment
GenerationThrows ==
    CASE LLMResponse.provider = "openai" -> llmEnv.openaiReply = "throws"
      [] LLMResponse.provider = "ollama" -> llmEnv.ollamaReply = "throws"
      [] OTHER -> \/ llmEnv.hfReply = "throws"
                  \/ /\ llmEnv.hfReply = "no_generated_text"
                     /\ llmEnv.hfAltReply # "body"

\* C1: the provider is OpenAI when the key is set and the probe succeeds,
\* otherwise Ollama when the tags endpoint answers OK, otherwise Hugging
\* Face; the generation request never goes to a lower-priority provider
\* while a higher-priority one is available.
C1_ProviderPriority ==
    llmCall.kind # "none" =>
        /\ OpenAIAvailable => LLMResponse.provider = "openai"
        /\ (~OpenAIAvailable /\ OllamaAvailable) => LLMResponse.provider = "ollama"
        /\ (~OpenAIAvailable /\ ~OllamaAvailable) => LLMResponse.provider = "huggingface"
        /\ Sent("openai:generate") => OpenAIAvailable
        /\ Sent("ollama:generate") => ~OpenAIAvailable /\ OllamaAvailable
        /\ Sent("huggingface:dialogpt") => ~OpenAIAvailable /\ ~OllamaAvailable

\* C1 witness: the key is set but the probe fails while Ollama answers, and
\* the call went to Ollama.
C1_Witness ==
    /\ llmCall.kind = "generateText"
    /\ llmEnv.OPENAI_API_KEY
    /\ llmEnv.openaiProbe = "throws"
    /\ llmEnv.ollamaTags = "ok"
    /\ llmOut.provider = "ollama"
    /\ Sent("ollama:generate")

\* C2: generateText never rejects: it resolves to a string, and that string
\* is the canned fallback text for the prompt whenever the generation of
\* the selected provider throws.
C2_GenerateTextNeverRejects ==
    llmCall.kind = "generateText" =>
        /\ llmOut.status = "resolved"
        /\ llmOut.value \in ProviderBodies \cup CannedTexts \cup {""}
        /\ GenerationThrows =>
              /\ llmOut.value \in CannedTexts
              /\ llmOut.value = getFallbackResponse(llmCall.prompt)

\* C2 witness: both Hugging Face models failed and the caller got the
\* canned apology.
C2_Witness ==
    /\ llmCall.kind = "generateText"
    /\ llmOut.provider = "huggingface"
    /\ llmEnv.hfReply = "no_generated_text"
    /\ llmEnv.hfAltReply = "throws"
    /\ llmOut.status = "resolved"
    /\ llmOut.value = "canned_apology"

\* a provider was tried (its generation was requested) or found unavailable
\* (no key, or its probe was sent and failed)
OpenAISettled ==
    \/ ~llmEnv.OPENAI_API_KEY
    \/ Sent("openai:probe") /\ llmEnv.openaiProbe = "throws"
    \/ Sent("openai:generate")
OllamaSettled ==
    \/ Sent("ollama:tags") /\ llmEnv.ollamaTags # "ok"
    \/ Sent("ollama:generate")
HuggingFaceSettled == Sent("huggingface:dialogpt")

\* C3: the canned fallback text is the last resort of a generateText call:
\* it is returned only after OpenAI, Ollama and Hugging Face have each been
\* tried or found unavailable.
C3_FallbackIsLastResort ==
    (llmCall.kind = "generateText" /\ llmOut.value \in CannedTexts) =>
        OpenAISettled /\ OllamaSettled /\ HuggingFaceSettled

\* no provider produced a usable answer to the skills prompt: the generation
\* threw, or the text it returned has no skills array to read
NoUsableSkillsResponse ==
    \/ GenerationThrows
    \/ llmOut.response.value \notin {"json_skills"}

\* C5: when no provider yields a usable response, extractResumeSkills
\* returns what the regex list finds in the resume (or the default pair).
C5_SkillsFallbackUsesRegex ==
    (llmCall.kind = "extractResumeSkills" /\ NoUsableSkillsResponse) =>
        llmOut.value = extractSkillsFallback(llmCall.content)

(***************************************************************************)
(* AIJobMatcherService (server/services/aiJobMatcher.ts)                   *)
(***************************************************************************)

\* how many entries a resume's skills array has at most
MaxResumeSkills == 2

\* A JavaScript number as far as the scores need it: NaN, or the exact
\* fraction num / den (den > 0).
NaN == [nan |-> TRUE, num |-> 0, den |-> 1]
Num(n) == [nan |-> FALSE, num |-> n, den |-> 1]
Ratio(n, d) == [nan |-> FALSE, num |-> n, den |-> d]

\* a <= b on such numbers; every comparison with NaN is false
NumLeq(a, b) == ~a.nan /\ ~b.nan /\ a.num * b.den <= b.num * a.den

\* Math.min, Math.max: NaN if either argument is NaN
MathMin(a, b) == IF a.nan \/ b.nan THEN NaN ELSE IF NumLeq(a, b) THEN a ELSE b
MathMax(a, b) == IF a.nan \/ b.nan THEN NaN ELSE IF NumLeq(a, b) THEN b ELSE a

\* The score field of the parsed analysis, and the number Math.min makes of
\* it: a number, a numeric string, null (0), a field that is missing or
\* holds other text (NaN).
ScoreFields ==
    [kind : {"number"}, n : {-20, 0, 60, 75, 100, 140}]
        \cup [kind : {"numeric_string"}, n : {85}]
        \cup [kind : {"null", "missing", "text"}, n : {0}]

ToNumber(field) ==
    CASE field.kind \in {"number", "numeric_string"} -> Num(field.n)
      [] field.kind = "null" -> Num(0)
      [] OTHER -> NaN

\* commonSkills of extractSkillsFromText
commonSkills == <<
    <<"J","a","v","a","S","c","r","i","p","t">>,
    <<"P","y","t","h","o","n">>,
    <<"R","e","a","c","t">>,
    <<"N","o","d","e",".","j","s">>,
    <<"T","y","p","e","S","c","r","i","p","t">>,
    <<"J","a","v","a">>,
    <<"C","+","+">>,
    <<"H","T","M","L">>,
    <<"C","S","S">>,
    <<"A","W","S">>,
    <<"D","o","c","k","e","r">>,
    <<"K","u","b","e","r","n","e","t","e","s">>,
    <<"G","i","t">>,
    <<"S","Q","L">>,
    <<"P","o","s","t","g","r","e","S","Q","L">>,
    <<"M","o","n","g","o","D","B">>,
    <<"R","e","d","i","s">>,
    <<"D","j","a","n","g","o">>,
    <<"F","l","a","s","k">>,
    <<"E","x","p","r","e","s","s">>,
    <<"V","u","e",".","j","s">>,
    <<"A","n","g","u","l","a","r">>,
    <<"G","r","a","p","h","Q","L">>,
    <<"R","E","S","T"," ","A","P","I">>,
    <<"M","a","c","h","i","n","e"," ","L","e","a","r","n","i","n","g">>,
    <<"A","I">>,
    <<"D","a","t","a"," ","S","c","i","e","n","c","e">>,
    <<"T","e","n","s","o","r","F","l","o","w">>,
    <<"P","y","T","o","r","c","h">>,
    <<"P","a","n","d","a","s">>
>>

\* extractSkillsFromText
extractSkillsFromText(text) ==
    LET lower == ToLowerCase(text)
    IN  SelectSeq(commonSkills, LAMBDA skill : Includes(lower, ToLowerCase(skill)))

\* Array.prototype.includes on an array of strings
ArrayIncludes(array, x) == \E i \in 1..Len(array) : array[i] = x

\* job.description + ' ' + (job.requirements || '')
JobText(job) == job.description \o <<" ">> \o job.requirements

\* the filter of basicJobMatch: a resume skill matches when it contains, or
\* is contained in, some job skill, ignoring case
SkillMatchesJob(skill, jobSkills) ==
    \E j \in 1..Len(jobSkills) :
        \/ Includes(ToLowerCase(skill), ToLowerCase(jobSkills[j]))
        \/ Includes(ToLowerCase(jobSkills[j]), ToLowerCase(skill))

\* the same filter with equality (ignoring case) in place of containment
SkillEqualsJob(skill, jobSkills) ==
    \E j \in 1..Len(jobSkills) : ToLowerCase(skill) = ToLowerCase(jobSkills[j])

\* basicJobMatch keeping only the resume skills equal to a job skill
basicJobMatchExact(job, resume) ==
    LET jobSkills == extractSkillsFromText(JobText(job))
        resumeSkills == resume.skills
        matchingSkills == SelectSeq(resumeSkills,
                                    LAMBDA skill : SkillEqualsJob(skill, jobSkills))
        n == IF Len(jobSkills) > 1 THEN Len(jobSkills) ELSE 1
        score == MathMin(Num(100), Ratio(100 * Len(matchingSkills), n))
    IN  [ jobId         |-> job.id,
          score         |-> score,
          skillsMatch   |-> matchingSkills,
          missingSkills |-> SelectSeq(jobSkills,
                               LAMBDA skill : ~ArrayIncludes(matchingSkills, skill)),
          salaryMatch   |-> TRUE,
          locationMatch |-> TRUE ]

\* basicJobMatch
basicJobMatch(job, resume) ==
    LET jobSkills == extractSkillsFromText(JobText(job))
        resumeSkills == resume.skills
        matchingSkills == SelectSeq(resumeSkills,
                                    LAMBDA skill : SkillMatchesJob(skill, jobSkills))
        n == IF Len(jobSkills) > 1 THEN Len(jobSkills) ELSE 1
        score == MathMin(Num(100), Ratio(100 * Len(matchingSkills), n))
    IN  [ jobId         |-> job.id,
          score         |-> score,
          skillsMatch   |-> matchingSkills,
          missingSkills |-> SelectSeq(jobSkills,
                               LAMBDA skill : ~ArrayIncludes(matchingSkills, skill)),
          salaryMatch   |-> TRUE,
          locationMatch |-> TRUE ]

\* What OpenAIService.generateText gives analyzeJobMatch: it throws, or it
\* returns text that is not JSON, the JSON null, or a JSON object.
MatchReplies ==
    [ kind        : {"throws", "not_json", "json_null"},
      score       : {[kind |-> "missing", n |-> 0]},
      skillsMatch : {<<>>},
      salaryMatch : {"missing"} ]
    \cup
    [ kind        : {"json"},
      score       : ScoreFields,
      skillsMatch : {<<>>, << <<"R","e","a","c","t">> >>},
      salaryMatch : {"true", "false", "missing"} ]

\* analyzeJobMatch
analyzeJobMatch(job, resume, reply) ==
    IF reply.kind = "json"
    THEN [ jobId         |-> job.id,
           score         |-> MathMax(Num(0), MathMin(Num(100), ToNumber(reply.score))),
           skillsMatch   |-> reply.skillsMatch,
           missingSkills |-> <<>>,
           salaryMatch   |-> reply.salaryMatch = "true",
           locationMatch |-> TRUE ]
    ELSE basicJobMatch(job, resume)

\* Jobs and resumes the matcher is tried on.
Jobs == {
    [id |-> "job-1",
     description  |-> <<"R","e","a","c","t"," ","a","n","d"," ","S","Q","L">>,
     requirements |-> <<>>],
    [id |-> "job-1",
     description  |-> <<"J","a","v","a","S","c","r","i","p","t">>,
     requirements |-> <<"d","o","c","k","e","r">>],
    [id |-> "job-1",
     description  |-> <<"W","e"," ","m","a","i","n","t","a","i","n">>,
     requirements |-> <<"G","i","t">>],
    [id |-> "job-1",
     description  |-> <<"s","a","l","e","s">>, requirements |-> <<>>] }

ResumeSkillNames == {
    <<"R","e","a","c","t">>,
    <<"r","e","a","c","t"," ","n","a","t","i","v","e">>,
    <<"s","q","l">>,
    <<"J","a","v","a">>,
    <<"G","i","t">> }

Resumes == { [skills |-> sk] : sk \in UNION { [1..k -> ResumeSkillNames] : k \in 0..MaxResumeSkills } }

MatchInit ==
    /\ llmEnv = NoLLMEnv
    /\ llmCall = None
    /\ llmOut = None
    /\ matchCall = None
    /\ matchOut = None
    /\ storage = EmptyStorage
    /\ ServerIdle

\* a caller invokes analyzeJobMatch(job, resume) and awaits it
AnalyzeJobMatchCall(job, resume, reply) ==
    /\ matchCall = None
    /\ matchCall' = [kind |-> "analyzeJobMatch", job |-> job, resume |-> resume,
                     reply |-> reply]
    /\ matchOut' = analyzeJobMatch(job, resume, reply)

MatchNext ==
    \E job \in Jobs, resume \in Resumes, reply \in MatchReplies :
        AnalyzeJobMatchCall(job, resume, reply)
           /\ UNCHANGED <<llmVars, storage, schedVars, restVars, applyVars, scrapeVars>>

SpecMatch == MatchInit /\ [][MatchNext]_vars

(***************************************************************************)
(* Properties of AIJobMatcherService, checked under SpecMatch              *)
(***************************************************************************)

Range(seq) == {seq[i] : i \in 1..Len(seq)}

\* the LLM analysis failed: the request threw, or JSON.parse or the read of
\* the parsed value threw
AnalysisFailed ==
    /\ matchCall.kind = "analyzeJobMatch"
    /\ matchCall.reply.kind \in {"throws", "not_json", "json_null"}

MatchJobSkills == extractSkillsFromText(JobText(matchCall.job))

LowerNames(S) == {ToLowerCase(x) : x \in S}

\* C6 as stated: on the fallback path the score is the set-intersection
\* ratio 100 * |resume skills n job skills| / |job skills| (names compared
\* ignoring case), skillsMatch is the intersection and missingSkills the job
\* skills outside it.
C6_SetIntersectionRatio ==
    AnalysisFailed =>
        LET J == LowerNames(Range(MatchJobSkills))
            R == LowerNames(Range(matchCall.resume.skills))
            I == R \cap J
        IN  /\ LowerNames(Range(matchOut.skillsMatch)) = I
            /\ LowerNames(Range(matchOut.missingSkills)) = J \ I
            /\ ~matchOut.score.nan
            /\ IF J = {} THEN matchOut.score.num = 0
               ELSE matchOut.score.num * Cardinality(J)
                        = 100 * Cardinality(I) * matchOut.score.den

\* the entries of the resume's skills array that contain, or are contained
\* in, a job skill (ignoring case)
ContainmentMatches ==
    LET skills == matchCall.resume.skills
    IN  {i \in 1..Len(skills) :
            \E j \in 1..Len(MatchJobSkills) :
                \/ Includes(ToLowerCase(skills[i]), ToLowerCase(MatchJobSkills[j]))
                \/ Includes(ToLowerCase(MatchJobSkills[j]), ToLowerCase(skills[i]))}

\* C6 as amended: on the fallback path the score is
\* min(100, 100 * m / max(1, |job skills|)), where m counts the entries of
\* the resume's skills array that contain or are contained in some job skill
\* ignoring case; skillsMatch is those entries, and missingSkills is the job
\* skills that are not literally among them.
C6_ContainmentMatchRatio ==
    AnalysisFailed =>
        LET m == Cardinality(ContainmentMatches)
            n == IF Len(MatchJobSkills) > 1 THEN Len(MatchJobSkills) ELSE 1
        IN  /\ ~matchOut.score.nan
            /\ IF m >= n THEN matchOut.score.num = 100 * matchOut.score.den
               ELSE matchOut.score.num * n = 100 * m * matchOut.score.den
            /\ Len(matchOut.skillsMatch) = m
            /\ Range(matchOut.skillsMatch)
                  = {matchCall.resume.skills[i] : i \in ContainmentMatches}
            /\ Range(matchOut.missingSkills)
                  = {s \in Range(MatchJobSkills) : s \notin Range(matchOut.skillsMatch)}
            /\ matchOut.salaryMatch

\* C6 witness: the request threw, the job asks for React and SQL, the resume
\* lists only "react native": one fuzzy match out of two job skills, score 50.
C6_Witness ==
    /\ AnalysisFailed
    /\ matchCall.reply.kind = "throws"
    /\ Len(MatchJobSkills) = 2
    /\ matchCall.resume.skills = << <<"r","e","a","c","t"," ","n","a","t","i","v","e">> >>
    /\ matchOut.skillsMatch = matchCall.resume.skills
    /\ matchOut.score = Ratio(100, 2)

\* C7: every JobMatchScore returned by analyzeJobMatch has a numeric score
\* between 0 and 100 inclusive, whatever the score field of the LLM's JSON
\* holds.
C7_ScoreWithinRange ==
    matchCall.kind = "analyzeJobMatch" =>
        /\ ~matchOut.score.nan
        /\ NumLeq(Num(0), matchOut.score)
        /\ NumLeq(matchOut.score, Num(100))

(***************************************************************************)
(* MemStorage (server/storage.ts)                                          *)
(***************************************************************************)

\* the default limit of getJobs
getJobsDefaultLimit == 100

Reverse(seq) == [i \in 1..Len(seq) |-> seq[Len(seq) + 1 - i]]

Slice(seq, n) == IF Len(seq) <= n THEN seq ELSE SubSeq(seq, 1, n)

\* getJobs(limit): the active jobs, newest first (discoveredAt grows with the
\* order of insertion), cut to limit
getJobs(st, limit) ==
    Slice(Reverse(SelectSeq(st.jobs, LAMBDA j : j.isActive)), limit)

\* createJob: a fresh id, the job appended to the map
createJob(st, insertJob) ==
    [st EXCEPT !.jobs = Append(@,
        [ id          |-> Len(st.jobs) + 1,
          title       |-> insertJob.title,
          company     |-> insertJob.company,
          description |-> insertJob.description,
          requirements |-> insertJob.requirements,
          salary      |-> insertJob.salary,
          url         |-> insertJob.url,
          externalId  |-> insertJob.externalId,
          jobBoard    |-> insertJob.jobBoard,
          isActive    |-> insertJob.isActive ])]

\* getJob(id)
getJob(st, id) ==
    IF \E i \in 1..Len(st.jobs) : st.jobs[i].id = id
    THEN st.jobs[CHOOSE i \in 1..Len(st.jobs) : st.jobs[i].id = id]
    ELSE None

\* createAutomationLog
createAutomationLog(st, action, status) ==
    [st EXCEPT !.automationLogs = Append(@, [action |-> action, status |-> status])]

\* getJobSearchConfig(userId), for the one user of the routes
getJobSearchConfig(st) == st.jobSearchConfig

(***************************************************************************)
(* JobScraperService (server/services/jobScraper.ts)                       *)
(***************************************************************************)

Fulfilled(jobs) == [status |-> "fulfilled", value |-> jobs]
BoardRejected == [status |-> "rejected", value |-> <<>>]

\* the jobs of one settled board scrape that allJobs.push(...) receives
BoardJobs(settled) == IF settled.status = "fulfilled" THEN settled.value ELSE <<>>

\* the filter of scrapeAllJobBoards with titles and companies compared as
\* they are written
RECURSIVE UniqueFromCaseSensitive(_, _)
UniqueFromCaseSensitive(allJobs, index) ==
    IF index > Len(allJobs) THEN <<>>
    ELSE (IF \A k \in 1..(index - 1) :
                ~ /\ allJobs[k].title = allJobs[index].title
                  /\ allJobs[k].company = allJobs[index].company
          THEN <<allJobs[index]>> ELSE <<>>)
         \o UniqueFromCaseSensitive(allJobs, index + 1)

\* the filter of scrapeAllJobBoards: a job stays when it is the first of
\* allJobs with its title and company, compared in lower case
RECURSIVE UniqueFrom(_, _)
UniqueFrom(allJobs, index) ==
    IF index > Len(allJobs) THEN <<>>
    ELSE (IF \A k \in 1..(index - 1) :
                ~ /\ ToLowerCase(allJobs[k].title) = ToLowerCase(allJobs[index].title)
                  /\ ToLowerCase(allJobs[k].company)
                        = ToLowerCase(allJobs[index].company)
          THEN <<allJobs[index]>> ELSE <<>>)
         \o UniqueFrom(allJobs, index + 1)

\* scrapeAllJobBoards, given how the four board scrapes settled
scrapeAllJobBoards(boards, limit) ==
    LET allJobs == BoardJobs(boards.indeed) \o BoardJobs(boards.remoteOk)
                   \o BoardJobs(boards.linkedin) \o BoardJobs(boards.stackoverflow)
    IN  Slice(UniqueFrom(allJobs, 1), limit)

\* convertToInsertJob
convertToInsertJob(scrapedJob) ==
    [ title        |-> scrapedJob.title,
      company      |-> scrapedJob.company,
      description  |-> scrapedJob.description,
      requirements |-> <<>>,
      salary       |-> scrapedJob.salary,
      jobBoard     |-> scrapedJob.jobBoard,
      externalId   |-> scrapedJob.externalId,
      url          |-> scrapedJob.url,
      isActive     |-> TRUE ]

(***************************************************************************)
(* ScheduledJobSearchService (server/services/scheduledJobSearch.ts)       *)
(***************************************************************************)

\* the period handed to setInterval: 6 hours in milliseconds
SixHoursMs == 6 * 60 * 60 * 1000

\* the limits the two searches hand to scrapeAllJobBoards
scheduledScrapeLimit == 100
manualScrapeLimit == 50

DigitValue(c) ==
    (CHOOSE i \in 1..10 : <<"0","1","2","3","4","5","6","7","8","9">>[i] = c) - 1

IsSalaryChar(c) == c \in Digits \/ c = ","

\* where /\$?([\d,]+)k?/ can match starting at i
SalaryMatchAt(text, i) ==
    \/ IsSalaryChar(text[i])
    \/ text[i] = "$" /\ i < Len(text) /\ IsSalaryChar(text[i + 1])

\* the digits of the longest run of [\d,] in text from i on
RECURSIVE SalaryDigits(_, _)
SalaryDigits(text, i) ==
    IF i > Len(text) \/ ~IsSalaryChar(text[i]) THEN <<>>
    ELSE (IF text[i] = "," THEN <<>> ELSE <<text[i]>>) \o SalaryDigits(text, i + 1)

\* parseInt of a string of digits
RECURSIVE ParseDigits(_, _)
ParseDigits(digits, acc) ==
    IF digits = <<>> THEN acc
    ELSE ParseDigits(Tail(digits), 10 * acc + DigitValue(Head(digits)))

\* parseInt(salaryMatch[0].replace(/[\$,k]/g, '')) for the first match of the
\* pattern in the text: NaN when the text has no match or the match has no digit
extractedSalary(text) ==
    LET lower == ToLowerCase(text)
        starts == {i \in 1..Len(lower) : SalaryMatchAt(lower, i)}
    IN  IF starts = {} THEN [matched |-> FALSE, value |-> NaN]
        ELSE LET i == CHOOSE k \in starts : \A m \in starts : k <= m
                 from == IF lower[i] = "$" THEN i + 1 ELSE i
                 digits == SalaryDigits(lower, from)
             IN  [ matched |-> TRUE,
                   value   |-> IF digits = <<>> THEN NaN
                               ELSE Num(ParseDigits(digits, 0)) ]

\* matchesSalaryFilter; a bound of 0 is one that is not set
matchesSalaryFilter(job, config) ==
    IF config.salaryMin = 0 /\ config.salaryMax = 0 THEN TRUE
    ELSE LET salaryText == IF job.salary # <<>> THEN job.salary ELSE job.description
             salary == extractedSalary(salaryText)
         IN  IF ~salary.matched THEN TRUE
             ELSE IF salary.value.nan THEN TRUE
             ELSE IF config.salaryMin # 0 /\ salary.value.num < config.salaryMin
             THEN FALSE
             ELSE IF config.salaryMax # 0 /\ salary.value.num > config.salaryMax
             THEN FALSE
             ELSE TRUE

\* existingJobs.some(j => j.externalId === ... && j.jobBoard === ...)
JobExists(existingJobs, insertJob) ==
    \E k \in 1..Len(existingJobs) :
        /\ existingJobs[k].externalId = insertJob.externalId
        /\ existingJobs[k].jobBoard = insertJob.jobBoard

\* the loop of performJobSearch over scrapedJobs from index on: existingJobs
\* was read once before the loop
RECURSIVE saveScrapedJobs(_, _, _, _, _)
saveScrapedJobs(st, existingJobs, scrapedJobs, config, index) ==
    IF index > Len(scrapedJobs) THEN st
    ELSE LET insertJob == convertToInsertJob(scrapedJobs[index])
             save == /\ ~JobExists(existingJobs, insertJob)
                     /\ matchesSalaryFilter(scrapedJobs[index], config)
         IN  saveScrapedJobs(IF save THEN createJob(st, insertJob) ELSE st,
                             existingJobs, scrapedJobs, config, index + 1)

\* the loop of POST /api/job-search/manual: getJobs() is read for every job
RECURSIVE manualSaveJobs(_, _, _)
manualSaveJobs(st, scrapedJobs, index) ==
    IF index > Len(scrapedJobs) THEN st
    ELSE LET insertJob == convertToInsertJob(scrapedJobs[index])
             exists == JobExists(getJobs(st, getJobsDefaultLimit), insertJob)
         IN  manualSaveJobs(IF exists THEN st ELSE createJob(st, insertJob),
                            scrapedJobs, index + 1)

\* performJobSearch with the isActive check left out
SkipsSearchWithoutIsActive(config) ==
    \/ config = None
    \/ config.keywords = <<>>

\* performJobSearch skips when the configuration is missing, has no keyword
\* or is not active
SkipsSearch(config) ==
    \/ config = None
    \/ config.keywords = <<>>
    \/ ~config.isActive

\* performJobSearch from the return of the scrape to its end: save the new
\* jobs, write the log
performJobSearchAfterScrape(st, config, boards) ==
    LET scrapedJobs == scrapeAllJobBoards(boards, scheduledScrapeLimit)
        existingJobs == getJobs(st, getJobsDefaultLimit)
    IN  createAutomationLog(
            saveScrapedJobs(st, existingJobs, scrapedJobs, config, 1),
            "automated_job_search", "success")

\* POST /api/job-search/manual from the return of the scrape to its response
manualSearchAfterScrape(st, boards) ==
    LET scrapedJobs == scrapeAllJobBoards(boards, manualScrapeLimit)
    IN  createAutomationLog(manualSaveJobs(st, scrapedJobs, 1),
                            "manual_job_search", "success")

\* the manual search answers 400 when the configuration is missing or has no
\* keyword
ManualSearchRejects(config) ==
    \/ config = None
    \/ config.keywords = <<>>

\* setInterval(callback, ms): one more timer registered
setInterval(active, id, ms) == active \cup {[id |-> id, ms |-> ms]}

\* clearInterval(id)
clearInterval(active, id) == {t \in active : t.id # id}

\* startAutomaticJobSearch with the timer never registered
startAfterSearchNoTimer(id, active, n) ==
    [intervalId |-> id, timers |-> active]

\* startAutomaticJobSearch once its awaited performJobSearch has returned:
\* the interval is registered and kept in intervalId
startAfterSearch(id, active, n) ==
    [intervalId |-> n, timers |-> setInterval(active, n, SixHoursMs)]

\* startAutomaticJobSearch is entered while the service is running
AlreadyRunningIgnored(running) == FALSE

\* the guard of startAutomaticJobSearch: this.isRunning
AlreadyRunning(running) == running

\* what startAutomaticJobSearch and stopAutomaticJobSearch write to the log
LogAlreadyRunning == "Automatic job search is already running"
LogStarting == "Starting automatic job search service..."
LogScheduled == "Automatic job search scheduled to run every 6 hours"
LogStopped == "Automatic job search stopped"

\* Bound on the job searches, scheduled and manual, begun in one behaviour
MaxSearches == 2

ScrapedDev ==
    [ title |-> <<"D","e","v">>, company |-> <<"A","c","m","e">>,
      description |-> <<"R","e","a","c","t">>, salary |-> <<>>,
      url |-> <<"/","j","o","b","s","/","s","e","a","r","c","h">>,
      externalId |-> "search?keywords=dev", jobBoard |-> "LinkedIn" ]

\* a second LinkedIn card without a link of its own: url and externalId come
\* from the search URL, as for ScrapedDev
ScrapedQA ==
    [ title |-> <<"Q","A">>, company |-> <<"A","c","m","e">>,
      description |-> <<"S","Q","L">>, salary |-> <<>>,
      url |-> <<"/","j","o","b","s","/","s","e","a","r","c","h">>,
      externalId |-> "search?keywords=dev", jobBoard |-> "LinkedIn" ]

\* the posting of ScrapedDev as Indeed lists it
ScrapedIndeedDev ==
    [ title |-> <<"d","e","v">>, company |-> <<"A","C","M","E">>,
      description |-> <<"R","e","a","c","t">>,
      salary |-> <<"$","5","0","k">>,
      url |-> <<"/","j","o","b","/","j","k","1">>,
      externalId |-> "jk1", jobBoard |-> "Indeed" ]

\* How the four board scrapes of one search settle
BoardOutcomes == {
    [ indeed |-> Fulfilled(<<>>), remoteOk |-> Fulfilled(<<>>),
      linkedin |-> Fulfilled(<<>>), stackoverflow |-> Fulfilled(<<>>) ],
    [ indeed |-> Fulfilled(<<>>), remoteOk |-> Fulfilled(<<>>),
      linkedin |-> Fulfilled(<<ScrapedDev, ScrapedQA>>),
      stackoverflow |-> Fulfilled(<<>>) ],
    [ indeed |-> Fulfilled(<<ScrapedIndeedDev>>), remoteOk |-> Fulfilled(<<>>),
      linkedin |-> Fulfilled(<<ScrapedDev>>), stackoverflow |-> BoardRejected ] }

JobSearchConfigs == {
    [keywords |-> <<>>, isActive |-> TRUE, salaryMin |-> 0, salaryMax |-> 0],
    [keywords |-> <<"dev">>, isActive |-> FALSE, salaryMin |-> 0, salaryMax |-> 0],
    [keywords |-> <<"dev">>, isActive |-> TRUE, salaryMin |-> 0, salaryMax |-> 0],
    [keywords |-> <<"dev">>, isActive |-> TRUE, salaryMin |-> 60, salaryMax |-> 0] }

SchedInit ==
    /\ llmEnv = NoLLMEnv
    /\ llmCall = None
    /\ llmOut = None
    /\ matchCall = None
    /\ matchOut = None
    /\ storage = EmptyStorage
    /\ ServerIdle

\* POST /api/job-search/config: the configuration of the user is created or
\* replaced
SaveJobSearchConfig(config) ==
    /\ storage' = [storage EXCEPT !.jobSearchConfig = config]
    /\ UNCHANGED schedVars

\* startAutomaticJobSearch, up to its return or to the scrape its
\* performJobSearch awaits
StartAutomaticJobSearch ==
    /\ AlreadyRunning(isRunning) \/ performed < MaxSearches
    /\ IF AlreadyRunning(isRunning)
       THEN /\ console' = LogAlreadyRunning
            /\ UNCHANGED <<isRunning, intervalId, timers, searches, performed,
                           ticks, storage>>
       ELSE LET config == getJobSearchConfig(storage)
                n == performed + 1
                after == startAfterSearch(intervalId, timers, n)
            IN  /\ isRunning' = TRUE
                /\ performed' = n
                /\ IF SkipsSearch(config)
                   THEN /\ intervalId' = after.intervalId
                        /\ timers' = after.timers
                        /\ console' = LogScheduled
                        /\ UNCHANGED searches
                   ELSE /\ searches' = Append(searches,
                              [origin |-> "start", n |-> n, config |-> config])
                        /\ console' = LogStarting
                        /\ UNCHANGED <<intervalId, timers>>
                /\ UNCHANGED <<ticks, storage>>

\* stopAutomaticJobSearch
StopAutomaticJobSearch ==
    /\ IF intervalId # NoTimer
       THEN /\ timers' = clearInterval(timers, intervalId)
            /\ intervalId' = NoTimer
       ELSE UNCHANGED <<timers, intervalId>>
    /\ isRunning' = FALSE
    /\ console' = LogStopped
    /\ UNCHANGED <<searches, performed, ticks, storage>>

\* a registered interval fires: its callback calls performJobSearch, which
\* returns at once or awaits its scrape
Tick(t) ==
    /\ t \in timers
    /\ performed < MaxSearches
    /\ ticks' = ticks + 1
    /\ performed' = performed + 1
    /\ LET config == getJobSearchConfig(storage)
       IN  IF SkipsSearch(config)
           THEN UNCHANGED searches
           ELSE searches' = Append(searches,
                    [origin |-> "tick", n |-> performed + 1, config |-> config])
    /\ UNCHANGED <<isRunning, intervalId, timers, console, storage>>

\* POST /api/job-search/manual, up to its 400 or to the scrape it awaits
ManualSearch ==
    /\ performed < MaxSearches
    /\ LET config == getJobSearchConfig(storage)
       IN  IF ManualSearchRejects(config)
           THEN UNCHANGED <<searches, performed>>
           ELSE /\ performed' = performed + 1
                /\ searches' = Append(searches,
                      [origin |-> "manual", n |-> performed + 1, config |-> config])
    /\ UNCHANGED <<isRunning, intervalId, timers, ticks, console, storage>>

\* the scrape of search i returns: the rest of performJobSearch, or of the
\* manual search handler, runs; a start call then registers its interval
ScrapeReturns(i, boards) ==
    /\ i \in 1..Len(searches)
    /\ LET search == searches[i]
           after == startAfterSearch(intervalId, timers, search.n)
       IN  /\ storage' = IF search.origin = "manual"
                         THEN manualSearchAfterScrape(storage, boards)
                         ELSE performJobSearchAfterScrape(storage, search.config, boards)
           /\ IF search.origin = "start"
              THEN /\ intervalId' = after.intervalId
                   /\ timers' = after.timers
                   /\ console' = LogScheduled
              ELSE UNCHANGED <<intervalId, timers, console>>
    /\ searches' = SubSeq(searches, 1, i - 1) \o SubSeq(searches, i + 1, Len(searches))
    /\ UNCHANGED <<isRunning, performed, ticks>>

SchedNext ==
    \/ \E config \in JobSearchConfigs :
          SaveJobSearchConfig(config) /\ UNCHANGED <<llmVars, matchVars, restVars, applyVars, scrapeVars>>
    \/ StartAutomaticJobSearch /\ UNCHANGED <<llmVars, matchVars, restVars, applyVars, scrapeVars>>
    \/ StopAutomaticJobSearch /\ UNCHANGED <<llmVars, matchVars, restVars, applyVars, scrapeVars>>
    \/ \E t \in timers : Tick(t) /\ UNCHANGED <<llmVars, matchVars, restVars, applyVars, scrapeVars>>
    \/ ManualSearch /\ UNCHANGED <<llmVars, matchVars, restVars, applyVars, scrapeVars>>
    \/ \E i \in 1..Len(searches), boards \in BoardOutcomes :
          ScrapeReturns(i, boards) /\ UNCHANGED <<llmVars, matchVars, restVars, applyVars, scrapeVars>>

SpecSched == SchedInit /\ [][SchedNext]_vars

(***************************************************************************)
(* Properties of the job searches, checked under SpecSched                 *)
(***************************************************************************)

\* the ids of the searches awaiting their scrape
InFlight(inflight) == {inflight[i].n : i \in 1..Len(inflight)}

\* the numbers of the start calls still awaiting their performJobSearch
StartsAwaiting(inflight) ==
    {inflight[i].n : i \in {k \in 1..Len(inflight) : inflight[k].origin = "start"}}

\* C8: a startAutomaticJobSearch call on a stopped service begins one job
\* search in the step that accepts it; the interval timer is registered only
\* when a start call returns, after that call's search has finished, every
\* start call that returns registers one, and its period is 6 hours; every
\* firing of a registered interval begins exactly one further job search.
C8_ImmediateSearchThenTimer ==
    [][ /\ (~isRunning /\ isRunning') => performed' = performed + 1
        /\ \A t \in timers' \ timers :
              /\ t.ms = SixHoursMs
              /\ timers' = timers \cup {t}
              /\ intervalId' = t.id
              /\ t.id <= performed'
              /\ t.id \notin InFlight(searches')
              /\ \/ t.id \in StartsAwaiting(searches)
                 \/ ~isRunning /\ isRunning' /\ t.id = performed'
        /\ \A n \in StartsAwaiting(searches) \ StartsAwaiting(searches') :
              \E t \in timers' \ timers : t.id = n
        /\ (~isRunning /\ isRunning' /\ performed' \notin InFlight(searches'))
              => \E t \in timers' \ timers : t.id = performed'
        /\ (ticks' = ticks + 1) => performed' = performed + 1
      ]_vars

\* C8 witness: the service was started with a usable configuration, its first
\* search saved jobs and then registered the 6-hour interval, that interval
\* has fired and the search of the tick has run to its end as well; the
\* service has not been stopped.
C8_Witness ==
    /\ isRunning
    /\ intervalId = 1
    /\ timers = {[id |-> 1, ms |-> SixHoursMs]}
    /\ ticks = 1
    /\ performed = 2
    /\ searches = <<>>
    /\ Len(storage.jobs) >= 1
    /\ Len(storage.automationLogs) = 2
    /\ \A i \in 1..2 : storage.automationLogs[i].action = "automated_job_search"

\* C9: no two jobs in storage share the same (externalId, jobBoard) pair,
\* whatever manual and scheduled searches have run and however they
\* interleave.
C9_NoDuplicateJobs ==
    \A i, k \in 1..Len(storage.jobs) :
        ( /\ storage.jobs[i].externalId = storage.jobs[k].externalId
          /\ storage.jobs[i].jobBoard = storage.jobs[k].jobBoard ) => i = k

\* getStatus(): nextRunTime is a date 6 hours ahead when intervalId holds a
\* timer, null otherwise
getStatus(running, id) ==
    [ isRunning   |-> running,
      nextRunTime |-> IF id # NoTimer THEN [kind |-> "date", inMs |-> SixHoursMs]
                      ELSE None ]

\* C11: at every moment at most one interval timer of the scheduler is
\* registered, however start and stop calls interleave, calls made while the
\* search of an earlier start is still awaiting its scrape included.
C11_AtMostOneTimer == Cardinality(timers) <= 1

\* C12: while the service is stopped (stopAutomaticJobSearch has returned and
\* no start call has been made since) no interval timer is registered,
\* getStatus reports isRunning = false and nextRunTime = null, and no
\* interval fires to begin a job search.
C12_StoppedMeansNoTimer ==
    /\ [](~isRunning =>
            /\ timers = {}
            /\ getStatus(isRunning, intervalId)
                 = [isRunning |-> FALSE, nextRunTime |-> None])
    /\ [][~isRunning => ticks' = ticks]_vars

\* C13: a startAutomaticJobSearch call made while isRunning is true begins
\* no job search, registers no timer and leaves the fields of the service
\* and storage as they were.
C13_StartIdempotentWhileRunning ==
    [][ (isRunning /\ console' # console /\ console' \in {LogAlreadyRunning, LogStarting})
            => UNCHANGED <<isRunning, intervalId, timers, searches, performed,
                           ticks, storage>>
      ]_vars

\* C13 witness: the service runs with its interval registered after one
\* search, and the last call it logged is a start call it turned down.
C13_Witness ==
    /\ isRunning
    /\ console = LogAlreadyRunning
    /\ intervalId = 1
    /\ timers = {[id |-> 1, ms |-> SixHoursMs]}
    /\ performed = 1
    /\ searches = <<>>
    /\ Len(storage.automationLogs) = 1

\* C14: a scheduled job search (the one of an accepted start call or of a
\* firing interval) that finds no configuration, no keyword or an inactive
\* configuration begins no scrape and leaves storage as it was: no job and no
\* automation log is created.
C14_SkippedSearchLeavesStorage ==
    [][ LET config == storage.jobSearchConfig
            scheduled == \/ ticks' = ticks + 1
                         \/ ~isRunning /\ isRunning'
            skipped == \/ config = None
                       \/ config.keywords = <<>>
                       \/ ~config.isActive
        IN  (scheduled /\ skipped) =>
                /\ storage' = storage
                /\ InFlight(searches') = InFlight(searches)
      ]_vars

\* C14 witness: the service was started and its interval has fired once
\* while the stored configuration was never usable by a scheduled search
\* (it is inactive now): both searches have returned, nothing is in flight,
\* and storage holds no job and no automation log.
C14_Witness ==
    /\ isRunning
    /\ ticks = 1
    /\ performed = 2
    /\ searches = <<>>
    /\ storage.jobSearchConfig # None
    /\ ~storage.jobSearchConfig.isActive
    /\ storage.jobs = <<>>
    /\ storage.automationLogs = <<>>

(***************************************************************************)
(* OpenAIService (server/services/openai.ts), the suggestions of           *)
(* LLMService, and IntelligentApplicationService                           *)
(***************************************************************************)

\* the cut-off of shouldAutoApply
minScore == 75

\* OpenAIService.generateText: the text of the completion, "" for a null
\* content; a request that throws is thrown on to the caller
OpenAIService_generateText(env) ==
    CASE env.openaiReply = "throws" -> Rejected
      [] env.openaiReply = "null_content" -> Resolved("")
      [] OTHER -> Resolved(env.body)

\* OpenAIService.generateCoverLetter: JSON.parse of the completion and a read
\* of its fields; whatever throws (the request, the parse, a field of null)
\* is thrown on to the caller
OpenAIService_generateCoverLetter(env) ==
    IF env.openaiReply = "body" /\ env.body \in {"json_skills", "json_no_skills"}
    THEN Resolved("generated_letter")
    ELSE Rejected

\* OpenAIService.optimizeResumeForJob: the completion, the resume itself for
\* a null content, the resume with a note when the request throws
OpenAIService_optimizeResumeForJob(env) ==
    CASE env.openaiReply = "throws" -> Resolved("original_with_note")
      [] env.openaiReply = "null_content" -> Resolved("original")
      [] OTHER -> Resolved(env.body)

\* LLMService.getResumeOptimizationSuggestions: parsed.suggestions, or the
\* default list when the text does not parse or has no such field
getResumeOptimizationSuggestions(env, resumeContent) ==
    LET response == generateText(env, [template |-> {}, user |-> resumeContent])
    IN  [ status   |-> "resolved",
          value    |-> IF response.value = "canned_keyword"
                       THEN "parsed_suggestions" ELSE "default_suggestions",
          response |-> response ]

\* resumes.find(r => r.isDefault) || resumes[0]
DefaultResume(resumes) ==
    IF \E i \in 1..Len(resumes) : resumes[i].isDefault
    THEN resumes[CHOOSE i \in 1..Len(resumes) :
                    /\ resumes[i].isDefault
                    /\ \A k \in 1..(i - 1) : ~resumes[k].isDefault]
    ELSE resumes[1]

\* what analyzeJobMatch gets from OpenAIService.generateText: nothing when
\* the request throws, else the completion as JSON.parse will see it
MatchReplyOf(env, reply) ==
    IF env.openaiReply = "throws"
    THEN [kind |-> "throws", score |-> [kind |-> "missing", n |-> 0],
          skillsMatch |-> <<>>, salaryMatch |-> "missing"]
    ELSE reply

\* shouldAutoApply
shouldAutoApply(st, job, env, reply) ==
    IF Len(st.resumes) = 0
    THEN [shouldApply |-> FALSE, reason |-> "No resume found", score |-> Num(0)]
    ELSE LET matchScore == analyzeJobMatch(job, DefaultResume(st.resumes),
                                           MatchReplyOf(env, reply))
         IN  IF /\ NumLeq(Num(minScore), matchScore.score)
                /\ Len(matchScore.skillsMatch) >= 3
                /\ matchScore.salaryMatch
             THEN [shouldApply |-> TRUE, reason |-> "High match score",
                   score |-> matchScore.score]
             ELSE [shouldApply |-> FALSE, reason |-> "Score too low",
                   score |-> matchScore.score]

\* generateOptimizedCoverLetter: the catch block returns a fixed template
generateOptimizedCoverLetter(env) ==
    LET text == OpenAIService_generateText(env)
    IN  IF text.status = "resolved" THEN "generated_letter" ELSE "template_letter"

kw_apply == <<"a","p","p","l","y">>

\* createCoverLetter
createCoverLetter(st, jobId, content) ==
    [st EXCEPT !.coverLetters = Append(@,
        [id |-> Len(st.coverLetters) + 1, jobId |-> jobId, content |-> content])]

\* createApplication
createApplication(st, jobId, resumeId, status) ==
    [st EXCEPT !.applications = Append(@,
        [id |-> Len(st.applications) + 1, jobId |-> jobId,
         resumeId |-> resumeId, status |-> status])]

\* updateApplication(id, {status})
updateApplication(st, id, status) ==
    [st EXCEPT !.applications =
        [i \in 1..Len(@) |-> IF @[i].id = id THEN [@[i] EXCEPT !.status = status]
                             ELSE @[i]]]

\* the id of result.applicationId when the result has none
NoApplication == 0

\* attemptAutoApplication from the approval of shouldAutoApply on, with
\* the call of the browser automation outside any try block of its own: what
\* it throws reaches the outer catch, which logs the failure
autoApplyApprovedFailingWithBrowser(st, job, env, evaluation, browser) ==
    LET defaultResume == DefaultResume(st.resumes)
        letter == generateOptimizedCoverLetter(env)
        st1 == createCoverLetter(st, job.id, letter)
        st2 == createApplication(st1, job.id, defaultResume.id, "pending")
    IN  IF Includes(job.url, kw_apply) /\ browser = "throws"
        THEN [ storage |-> createAutomationLog(st2, "auto_application", "failed"),
               result  |-> [success |-> FALSE, jobId |-> job.id,
                            applicationId |-> NoApplication,
                            error |-> "Browser not initialized",
                            matchScore |-> Num(0)] ]
        ELSE [ storage |-> createAutomationLog(st2, "auto_application", "success"),
               result  |-> [success |-> TRUE, jobId |-> job.id,
                            applicationId |-> Len(st2.applications),
                            error |-> "", matchScore |-> evaluation.score] ]

\* attemptAutoApplication from the approval of shouldAutoApply on: the cover
\* letter, the application, the browser automation, the log and the result.
\* browser is what browserAutomationService.submitApplication does when
\* called: it throws, or it returns the boolean true or false, of which the
\* caller reads the property success, which no boolean has.
autoApplyApproved(st, job, env, evaluation, browser) ==
    LET defaultResume == DefaultResume(st.resumes)
        letter == generateOptimizedCoverLetter(env)
        st1 == createCoverLetter(st, job.id, letter)
        st2 == createApplication(st1, job.id, defaultResume.id, "pending")
        applicationId == Len(st2.applications)
        browserSuccess == FALSE
        st3 == IF /\ Includes(job.url, kw_apply)
                  /\ browser # "throws"
                  /\ browser = "true" /\ browserSuccess
               THEN updateApplication(st2, applicationId, "submitted")
               ELSE st2
    IN  [ storage |-> createAutomationLog(st3, "auto_application", "success"),
          result  |-> [success |-> TRUE, jobId |-> job.id,
                       applicationId |-> applicationId,
                       error |-> "", matchScore |-> evaluation.score] ]

\* attemptAutoApplication writing a failure log for a job it turns down
attemptAutoApplicationLoggingRejection(st, job, env, reply, browser) ==
    LET evaluation == shouldAutoApply(st, job, env, reply)
    IN  IF ~evaluation.shouldApply
        THEN [ storage |-> createAutomationLog(st, "auto_application", "failed"),
               result  |-> [success |-> FALSE, jobId |-> job.id,
                            applicationId |-> NoApplication,
                            error |-> evaluation.reason,
                            matchScore |-> evaluation.score] ]
        ELSE autoApplyApproved(st, job, env, evaluation, browser)

\* attemptAutoApplication: its result and the storage it leaves
attemptAutoApplication(st, job, env, reply, browser) ==
    LET evaluation == shouldAutoApply(st, job, env, reply)
    IN  IF ~evaluation.shouldApply
        THEN [ storage |-> st,
               result  |-> [success |-> FALSE, jobId |-> job.id,
                            applicationId |-> NoApplication,
                            error |-> evaluation.reason,
                            matchScore |-> evaluation.score] ]
        ELSE autoApplyApproved(st, job, env, evaluation, browser)

\* const maxAutoApplications = 5
maxAutoApplications == 5

\* existingApplications.some(app => app.jobId === job.id)
alreadyApplied(st, job) ==
    \E i \in 1..Len(st.applications) : st.applications[i].jobId = job.id

\* processJobBatchForAutoApplications with the check of the limit left out
RECURSIVE processJobBatchWithoutLimit(_, _, _, _, _, _, _, _)
processJobBatchWithoutLimit(st, jobs, env, replies, browser, index, applicationsAttempted, results) ==
    IF index > Len(jobs)
    THEN [storage |-> st, results |-> results]
    ELSE IF alreadyApplied(st, jobs[index])
    THEN processJobBatchWithoutLimit(st, jobs, env, replies, browser, index + 1,
                                     applicationsAttempted, results)
    ELSE LET attempt == attemptAutoApplication(st, jobs[index], env,
                                               replies[index], browser)
         IN  processJobBatchWithoutLimit(attempt.storage, jobs, env, replies,
                browser, index + 1,
                applicationsAttempted + (IF attempt.result.success THEN 1 ELSE 0),
                Append(results, attempt.result))

\* processJobBatchForAutoApplications: the loop over jobs from index on;
\* replies[index] is what the LLM answers for jobs[index]
RECURSIVE processJobBatchForAutoApplications(_, _, _, _, _, _, _, _)
processJobBatchForAutoApplications(st, jobs, env, replies, browser, index, applicationsAttempted, results) ==
    IF index > Len(jobs) \/ applicationsAttempted >= maxAutoApplications
    THEN [storage |-> st, results |-> results]
    ELSE IF alreadyApplied(st, jobs[index])
    THEN processJobBatchForAutoApplications(st, jobs, env, replies, browser,
                index + 1, applicationsAttempted, results)
    ELSE LET attempt == attemptAutoApplication(st, jobs[index], env,
                                               replies[index], browser)
         IN  processJobBatchForAutoApplications(attempt.storage, jobs, env,
                replies, browser, index + 1,
                applicationsAttempted + (IF attempt.result.success THEN 1 ELSE 0),
                Append(results, attempt.result))

\* findBestMatches: one analyzeJobMatch per active job of getJobs(50), none
\* when the user has no resume
findBestMatches(st, env, reply) ==
    IF Len(st.resumes) = 0 THEN <<>>
    ELSE LET jobs == getJobs(st, 50)
         IN  [i \in 1..Len(jobs) |->
                 analyzeJobMatch(jobs[i], DefaultResume(st.resumes),
                                 MatchReplyOf(env, reply))]

(***************************************************************************)
(* BrowserAutomationService (server/services/browserAutomation.ts)         *)
(***************************************************************************)

\* closeBrowser with the error of page.close() or browser.close() thrown on
closeBrowserRethrows(closing) ==
    IF closing = "throws" THEN Rejected ELSE Resolved("closed")

\* closeBrowser: an error of page.close() or browser.close() is logged and
\* swallowed
closeBrowser(closing) == Resolved("closed")

\* navigateToJobApplication: initBrowser is outside the try block, so a
\* failed launch is thrown on; a failed navigation returns false
navigateToJobApplication(launch, navigation) ==
    CASE launch = "throws" -> Rejected
      [] navigation = "throws" -> Resolved(FALSE)
      [] OTHER -> Resolved(TRUE)

\* fillApplicationForm: throws when no page is open (another request closed
\* the browser meanwhile), false when filling failed
fillApplicationForm(filling) ==
    CASE filling = "no_page" -> Rejected
      [] filling = "throws" -> Resolved(FALSE)
      [] OTHER -> Resolved(TRUE)

(***************************************************************************)
(* REST handlers (server/routes.ts, server/routes/llm-status.ts)           *)
(***************************************************************************)

\* res.status(status).json(body)
JsonOf(status, body) == [status |-> status, kind |-> "json", body |-> body]

\* the same, for a body whose content the model does not follow
Json(status) == JsonOf(status, None)

\* fileStream.pipe(res) after the download headers were set
FileStream == [status |-> 200, kind |-> "stream", body |-> None]

Handled(responses, st) == [responses |-> responses, storage |-> st]

\* getResume(id); resumes.find(r => r.id === id)
getResume(st, id) ==
    IF \E i \in 1..Len(st.resumes) : st.resumes[i].id = id
    THEN st.resumes[CHOOSE i \in 1..Len(st.resumes) : st.resumes[i].id = id]
    ELSE None

\* createResume
createResume(st, content, skills, isDefault) ==
    [st EXCEPT !.resumes = Append(@,
        [id |-> Len(st.resumes) + 1, content |-> content, skills |-> skills,
         isDefault |-> isDefault])]

\* POST /api/resumes/upload
uploadHandler(st, env, req) ==
    IF ~req.file THEN Handled(<<Json(400)>>, st)
    ELSE IF req.readThrows THEN Handled(<<Json(500)>>, st)
    ELSE LET skills == extractResumeSkills(env, req.content)
         IN  IF skills.status = "rejected" THEN Handled(<<Json(500)>>, st)
             ELSE Handled(<<JsonOf(200, skills.value)>>,
                     createResume(st, req.content, skills.value, req.isDefault))

\* GET /api/resumes/:id/download
downloadHandler(st, req) ==
    IF getResume(st, req.resumeId) = None THEN Handled(<<Json(404)>>, st)
    ELSE IF req.onDisk = "missing" THEN Handled(<<Json(404)>>, st)
    ELSE Handled(<<FileStream>>, st)

\* POST /api/resumes/:id/optimize/:jobId
optimizeForJobHandler(st, env, req) ==
    IF getResume(st, req.resumeId) = None \/ getJob(st, req.jobId) = None
    THEN Handled(<<Json(404)>>, st)
    ELSE LET optimizedContent == OpenAIService_optimizeResumeForJob(env)
         IN  IF optimizedContent.status = "rejected"
             THEN Handled(<<Json(500)>>, st)
             ELSE Handled(<<JsonOf(200, optimizedContent.value)>>, st)

\* GET /api/resumes/:id/optimize
optimizeHandler(st, env, req) ==
    IF getResume(st, req.resumeId) = None THEN Handled(<<Json(404)>>, st)
    ELSE LET suggestions == getResumeOptimizationSuggestions(
                                env, getResume(st, req.resumeId).content)
         IN  IF suggestions.status = "rejected" THEN Handled(<<Json(500)>>, st)
             ELSE Handled(<<JsonOf(200, suggestions.value)>>, st)

\* an id of the request body that is absent
NoId == 0

\* POST /api/cover-letters/generate
coverLetterHandler(st, env, req) ==
    IF ~req.body THEN Handled(<<Json(500)>>, st)
    ELSE IF req.jobId = NoId \/ req.resumeId = NoId \/ ~req.applicantName
    THEN Handled(<<Json(400)>>, st)
    ELSE IF getJob(st, req.jobId) = None \/ getResume(st, req.resumeId) = None
    THEN Handled(<<Json(404)>>, st)
    ELSE LET coverLetter == OpenAIService_generateCoverLetter(env)
         IN  IF coverLetter.status = "rejected"
             THEN Handled(<<Json(500)>>, st)
             ELSE Handled(<<JsonOf(200, coverLetter.value)>>,
                          createCoverLetter(st, req.jobId, coverLetter.value))

\* POST /api/applications/apply. The inner try answers 200 or 500; its
\* finally block awaits closeBrowser, and what that throws reaches the outer
\* catch, which answers 500 as well.
applyHandler(st, req) ==
    IF ~req.body THEN Handled(<<Json(500)>>, st)
    ELSE IF req.jobId = NoId \/ req.resumeId = NoId
    THEN Handled(<<Json(400)>>, st)
    ELSE IF getJob(st, req.jobId) = None \/ getResume(st, req.resumeId) = None
    THEN Handled(<<Json(404)>>, st)
    ELSE LET st1 == createApplication(st, req.jobId, req.resumeId, "pending")
             applicationId == Len(st1.applications)
             success == navigateToJobApplication(req.launch, req.navigation)
             filled == IF success.status = "resolved" /\ success.value
                       THEN fillApplicationForm(req.filling)
                       ELSE Rejected
             submitted == filled.status = "resolved" /\ filled.value
             st2 == IF submitted
                    THEN createAutomationLog(
                             updateApplication(st1, applicationId, "submitted"),
                             "automated_application", "success")
                    ELSE createAutomationLog(
                             updateApplication(st1, applicationId, "pending"),
                             "automated_application", "error")
             inner == IF submitted THEN <<Json(200)>> ELSE <<Json(500)>>
             closed == closeBrowser(req.closing)
         IN  Handled(IF closed.status = "rejected"
                     THEN inner \o <<Json(500)>> ELSE inner,
                     st2)

\* POST /api/ai/analyze-job/:jobId
analyzeJobHandler(st, env, req) ==
    IF getJob(st, req.jobId) = None \/ Len(st.resumes) = 0
    THEN Handled(<<Json(404)>>, st)
    ELSE Handled(<<JsonOf(200, analyzeJobMatch(getJob(st, req.jobId),
                                              DefaultResume(st.resumes),
                                              MatchReplyOf(env, req.reply)))>>, st)

\* GET /api/ai/job-matches
jobMatchesHandler(st, env, req) ==
    Handled(<<JsonOf(200, findBestMatches(st, env, req.reply))>>, st)

\* POST /api/ai/auto-apply/:jobId
autoApplyHandler(st, env, req) ==
    IF getJob(st, req.jobId) = None THEN Handled(<<Json(404)>>, st)
    ELSE LET attempt == attemptAutoApplication(st, getJob(st, req.jobId), env,
                                               req.reply, req.browser)
         IN  Handled(<<JsonOf(200, attempt.result)>>, attempt.storage)

\* POST /api/job-search/config and POST /api/system/config: the schema's
\* parse throws on a body it rejects
saveConfigHandler(st, req) ==
    IF ~req.valid THEN Handled(<<Json(500)>>, st)
    ELSE IF req.route = "POST /api/job-search/config"
    THEN Handled(<<Json(200)>>, [st EXCEPT !.jobSearchConfig = req.config])
    ELSE Handled(<<Json(200)>>, [st EXCEPT !.systemConfig = req.config])

\* POST /api/automation/toggle: updateSystemConfig changes nothing when the
\* user has no system configuration
toggleHandler(st, req) ==
    IF ~req.body THEN Handled(<<Json(500)>>, st)
    ELSE Handled(<<Json(200)>>,
            createAutomationLog(
                IF st.systemConfig = None THEN st
                ELSE [st EXCEPT !.systemConfig.automationEnabled = req.enabled],
                "automation_toggle", "success"))

\* The handlers that read storage or a service and answer with what they
\* read, inside try/catch
ReadRoutes == {
    "GET /api/dashboard/stats", "GET /api/applications/recent",
    "GET /api/job-search/config", "GET /api/job-search/automation-status",
    "GET /api/jobs", "GET /api/resumes", "GET /api/applications",
    "GET /api/automation/logs", "GET /api/system/config",
    "GET /api/ai/learning-insights",
    "GET /api/ai/application-patterns" }

\* The handlers of llm-status.ts: every call that can throw has a try/catch
\* of its own
StatusRoutes == {"GET /api/llm/setup-guide"}

\* GET /api/llm/status: the three checks and the provider it names.
\* HUGGINGFACE_API_KEY, hfProbe (how the test request to Hugging Face ends:
\* its HTTP status, or it throws) and tagsJson (whether the body of the Ollama
\* tags response parses) are read by this handler alone.
llmStatus(env, req) ==
    LET openai == env.OPENAI_API_KEY /\ env.openaiProbe = "ok"
        ollama == env.ollamaTags = "ok" /\ req.tagsJson = "ok"
        huggingface == req.HUGGINGFACE_API_KEY /\ req.hfProbe \in {"200", "503"}
    IN  [ openai |-> openai, ollama |-> ollama, huggingface |-> huggingface,
          activeProvider |-> IF openai THEN "openai"
                             ELSE IF ollama THEN "ollama"
                             ELSE IF huggingface THEN "huggingface"
                             ELSE "fallback" ]

llmStatusHandler(st, env, req) == Handled(<<JsonOf(200, llmStatus(env, req))>>, st)

\* a handler of ReadRoutes answers 200 with what it read, or 500 from its
\* catch block; a handler of StatusRoutes, where nothing throws, answers 200
readHandler(st, req) ==
    IF req.route \in ReadRoutes /\ req.throws
    THEN Handled(<<Json(500)>>, st)
    ELSE Handled(<<Json(200)>>, st)

(***************************************************************************)
(* One REST request against a server with some stored data                 *)
(***************************************************************************)

\* a posting with an application link, as Indeed lists it
ScrapedApply ==
    [ title |-> <<"D","e","v">>, company |-> <<"A","c","m","e">>,
      description |-> <<"R","e","a","c","t"," ","S","Q","L"," ","G","i","t">>,
      salary |-> <<>>,
      url |-> <<"/","j","o","b","/","a","p","p","l","y">>,
      externalId |-> "jk2", jobBoard |-> "Indeed" ]

ActiveConfig ==
    [keywords |-> <<"dev">>, isActive |-> TRUE, salaryMin |-> 0, salaryMax |-> 0]

\* Storage as a request can find it: empty, after a manual search saved one
\* job, and after a resume was uploaded as well whose skills the patterns
\* extracted; with and without a job search configuration
RestStorages ==
    LET content == <<"R","e","a","c","t"," ","S","Q","L"," ","G","i","t">>
        withJob == createJob(EmptyStorage, convertToInsertJob(ScrapedApply))
        withJobAndResume ==
            createResume(withJob, content, extractSkillsFallback(content), TRUE)
    IN  { [st EXCEPT !.jobSearchConfig = config] :
            st \in {EmptyStorage, withJob, withJobAndResume},
            config \in {None, ActiveConfig} }

\* OpenAI is reachable with a valid key and answers, or every request to it
\* throws (no key, invalid key, quota exceeded, network)
RestEnvs ==
    { env \in LLMEnvs :
        /\ env.openaiReply \in {"throws", "body"}
        /\ (env.openaiReply = "throws") <=> (env.openaiProbe = "throws")
        /\ ~env.OPENAI_API_KEY => env.openaiReply = "throws"
        /\ env.ollamaTags \in {"ok", "throws"}
        /\ env.ollamaReply \in {"throws", "body"}
        /\ env.hfReply \in {"throws", "body"}
        /\ env.hfAltReply = "throws"
        /\ env.body \in {"prose", "json_skills"} }

RestInit ==
    /\ llmEnv \in RestEnvs
    /\ llmCall = None
    /\ llmOut = None
    /\ matchCall = None
    /\ matchOut = None
    /\ storage \in RestStorages
    /\ ServerIdle

\* ids a request can name: absent, the stored one, an unknown one
BodyIds == {NoId, 1, 9}
ParamIds == {1, 9}

\* replies of the LLM to the prompt of analyzeJobMatch
RestMatchReplies ==
    { reply \in MatchReplies :
        \/ reply.kind = "not_json"
        \/ /\ reply.kind = "json"
           /\ reply.score \in {[kind |-> "number", n |-> 60], [kind |-> "missing", n |-> 0]}
           /\ reply.salaryMatch = "true" }

\* the handler of req runs to its end with the given responses and storage
Handle(req, handled) ==
    /\ restReq = None
    /\ restReq' = req
    /\ restRes' = handled.responses
    /\ storage' = handled.storage

\* POST /api/job-search/start-automation: startAutomaticJobSearch is awaited,
\* the scrape of its search settling as boards, then the handler answers
StartAutomationRequest(boards) ==
    /\ restReq = None
    /\ restReq' = [route |-> "POST /api/job-search/start-automation"]
    /\ restRes' = <<Json(200)>>
    /\ IF AlreadyRunning(isRunning)
       THEN /\ console' = LogAlreadyRunning
            /\ UNCHANGED <<isRunning, intervalId, timers, searches, performed,
                           ticks, storage>>
       ELSE LET config == getJobSearchConfig(storage)
                n == performed + 1
                after == startAfterSearch(intervalId, timers, n)
            IN  /\ isRunning' = TRUE
                /\ performed' = n
                /\ storage' = IF SkipsSearch(config) THEN storage
                              ELSE performJobSearchAfterScrape(storage, config, boards)
                /\ intervalId' = after.intervalId
                /\ timers' = after.timers
                /\ console' = LogScheduled
                /\ UNCHANGED <<searches, ticks>>

\* POST /api/job-search/stop-automation
StopAutomationRequest ==
    /\ restReq = None
    /\ restReq' = [route |-> "POST /api/job-search/stop-automation"]
    /\ restRes' = <<Json(200)>>
    /\ StopAutomaticJobSearch

\* POST /api/job-search/manual, the scrape settling as boards
ManualSearchRequest(boards) ==
    /\ restReq = None
    /\ restReq' = [route |-> "POST /api/job-search/manual"]
    /\ LET config == getJobSearchConfig(storage)
       IN  IF ManualSearchRejects(config)
           THEN /\ restRes' = <<Json(400)>>
                /\ UNCHANGED <<storage, performed>>
           ELSE /\ restRes' = <<Json(200)>>
                /\ storage' = manualSearchAfterScrape(storage, boards)
                /\ performed' = performed + 1
    /\ UNCHANGED <<isRunning, intervalId, timers, searches, ticks, console>>

RestNext ==
    \/ \E req \in
             [ route : {"POST /api/resumes/upload"}, file : {FALSE}, readThrows : {FALSE},
             content : {<<>>}, isDefault : {FALSE} ]
             \cup
             [ route : {"POST /api/resumes/upload"}, file : {TRUE}, readThrows : BOOLEAN,
             content : ResumeTexts, isDefault : BOOLEAN ] :
          /\ Handle(req, uploadHandler(storage, llmEnv, req))
          /\ UNCHANGED <<llmVars, matchVars, schedVars, applyVars, scrapeVars>>
    \/ \E req \in
             [ route : {"GET /api/resumes/:id/download"}, resumeId : ParamIds,
             onDisk : {"absolute", "relative", "missing"} ] :
          /\ Handle(req, downloadHandler(storage, req))
          /\ UNCHANGED <<llmVars, matchVars, schedVars, applyVars, scrapeVars>>
    \/ \E req \in
             [ route : {"POST /api/resumes/:id/optimize/:jobId"}, resumeId : ParamIds,
             jobId : ParamIds ] :
          /\ Handle(req, optimizeForJobHandler(storage, llmEnv, req))
          /\ UNCHANGED <<llmVars, matchVars, schedVars, applyVars, scrapeVars>>
    \/ \E req \in
             [ route : {"GET /api/resumes/:id/optimize"}, resumeId : ParamIds ] :
          /\ Handle(req, optimizeHandler(storage, llmEnv, req))
          /\ UNCHANGED <<llmVars, matchVars, schedVars, applyVars, scrapeVars>>
    \/ \E req \in
             [ route : {"POST /api/cover-letters/generate"}, body : {FALSE},
             jobId : {NoId}, resumeId : {NoId}, applicantName : {FALSE} ]
             \cup
             [ route : {"POST /api/cover-letters/generate"}, body : {TRUE},
             jobId : BodyIds, resumeId : BodyIds, applicantName : BOOLEAN ] :
          /\ Handle(req, coverLetterHandler(storage, llmEnv, req))
          /\ UNCHANGED <<llmVars, matchVars, schedVars, applyVars, scrapeVars>>
    \/ \E req \in
             [ route : {"POST /api/applications/apply"}, body : {FALSE},
             jobId : {NoId}, resumeId : {NoId}, launch : {"ok"}, navigation : {"ok"},
             filling : {"ok"}, closing : {"ok"} ]
             \cup
             [ route : {"POST /api/applications/apply"}, body : {TRUE},
             jobId : BodyIds, resumeId : BodyIds, launch : {"ok", "throws"},
             navigation : {"ok", "throws"}, filling : {"ok", "throws", "no_page"},
             closing : {"ok", "throws"} ] :
          /\ Handle(req, applyHandler(storage, req))
          /\ UNCHANGED <<llmVars, matchVars, schedVars, applyVars, scrapeVars>>
    \/ \E req \in
             [ route : {"POST /api/ai/analyze-job/:jobId"}, jobId : ParamIds,
             reply : RestMatchReplies ] :
          /\ Handle(req, analyzeJobHandler(storage, llmEnv, req))
          /\ UNCHANGED <<llmVars, matchVars, schedVars, applyVars, scrapeVars>>
    \/ \E req \in
             [ route : {"GET /api/ai/job-matches"}, reply : RestMatchReplies ] :
          /\ Handle(req, jobMatchesHandler(storage, llmEnv, req))
          /\ UNCHANGED <<llmVars, matchVars, schedVars, applyVars, scrapeVars>>
    \/ \E req \in
             [ route : {"POST /api/ai/auto-apply/:jobId"}, jobId : ParamIds,
             reply : RestMatchReplies, browser : {"throws", "true", "false"} ] :
          /\ Handle(req, autoApplyHandler(storage, llmEnv, req))
          /\ UNCHANGED <<llmVars, matchVars, schedVars, applyVars, scrapeVars>>
    \/ \E req \in
             [ route : {"POST /api/job-search/config"}, valid : BOOLEAN,
             config : {ActiveConfig} ]
             \cup
             [ route : {"POST /api/system/config"}, valid : BOOLEAN,
             config : {[automationEnabled |-> FALSE]} ] :
          /\ Handle(req, saveConfigHandler(storage, req))
          /\ UNCHANGED <<llmVars, matchVars, schedVars, applyVars, scrapeVars>>
    \/ \E req \in
             [ route : {"POST /api/automation/toggle"}, body : {FALSE}, enabled : {FALSE} ]
             \cup
             [ route : {"POST /api/automation/toggle"}, body : {TRUE}, enabled : BOOLEAN ] :
          /\ Handle(req, toggleHandler(storage, req))
          /\ UNCHANGED <<llmVars, matchVars, schedVars, applyVars, scrapeVars>>
    \/ \E req \in
             [route : ReadRoutes, throws : BOOLEAN]
             \cup [route : StatusRoutes, throws : {FALSE}] :
          /\ Handle(req, readHandler(storage, req))
          /\ UNCHANGED <<llmVars, matchVars, schedVars, applyVars, scrapeVars>>
    \/ \E req \in
             [ route : {"GET /api/llm/status"}, HUGGINGFACE_API_KEY : BOOLEAN,
               hfProbe : {"200", "503", "401", "throws"},
               tagsJson : {"ok", "throws"} ] :
          /\ Handle(req, llmStatusHandler(storage, llmEnv, req))
          /\ UNCHANGED <<llmVars, matchVars, schedVars, applyVars, scrapeVars>>
    \/ \E boards \in BoardOutcomes :
          StartAutomationRequest(boards) /\ UNCHANGED <<llmVars, matchVars, applyVars, scrapeVars>>
    \/ StopAutomationRequest /\ UNCHANGED <<llmVars, matchVars, applyVars, scrapeVars>>
    \/ \E boards \in BoardOutcomes :
          ManualSearchRequest(boards) /\ UNCHANGED <<llmVars, matchVars, applyVars, scrapeVars>>

SpecRest == RestInit /\ [][RestNext]_vars

(***************************************************************************)
(* Properties of the REST handlers, checked under SpecRest                 *)
(***************************************************************************)

\* every request to OpenAI throws: no key, quota exceeded, network
OpenAIUnavailable == llmEnv.openaiReply = "throws"

JobFound == getJob(storage, restReq.jobId) # None
ResumeFound == getResume(storage, restReq.resumeId) # None

\* the request in progress passed the handler's own checks and reached its
\* AI-backed operation
ReachesAIOperation ==
    CASE restReq.route = "POST /api/resumes/upload" ->
             restReq.file /\ ~restReq.readThrows
      [] restReq.route = "GET /api/resumes/:id/optimize" -> ResumeFound
      [] restReq.route = "POST /api/resumes/:id/optimize/:jobId" ->
             ResumeFound /\ JobFound
      [] restReq.route = "POST /api/cover-letters/generate" ->
             /\ restReq.body /\ restReq.applicantName
             /\ restReq.jobId # NoId /\ restReq.resumeId # NoId
             /\ JobFound /\ ResumeFound
      [] restReq.route = "POST /api/ai/analyze-job/:jobId" ->
             JobFound /\ Len(storage.resumes) > 0
      [] restReq.route = "GET /api/ai/job-matches" -> TRUE
      [] restReq.route = "POST /api/ai/auto-apply/:jobId" -> JobFound
      [] OTHER -> FALSE

\* C4: with OpenAI unavailable, every AI-backed operation reached through the
\* REST API (skill extraction on upload, optimisation, suggestions,
\* cover-letter generation, job-match analysis, auto-apply) is answered with
\* status 200 and a fallback result, never with an error response.
C4_AIOperationsFallBack ==
    (restReq # None /\ OpenAIUnavailable /\ ReachesAIOperation) =>
        /\ Len(restRes) = 1
        /\ restRes[1].status = 200

\* C10 as stated: every request is answered with exactly one response and
\* that response is JSON.
C10_ExactlyOneJsonResponse ==
    restReq # None =>
        /\ Len(restRes) = 1
        /\ restRes[1].kind = "json"

\* the download request in progress found its resume and the file on disk
DownloadSucceeds ==
    /\ restReq.route = "GET /api/resumes/:id/download"
    /\ ResumeFound
    /\ restReq.onDisk # "missing"

\* an exception was thrown inside the try block of the handler in progress
ThrownInHandler ==
    CASE restReq.route \in {"POST /api/cover-letters/generate"} ->
             \/ ~restReq.body
             \/ /\ ReachesAIOperation
                /\ OpenAIService_generateCoverLetter(llmEnv).status = "rejected"
      [] restReq.route \in {"POST /api/applications/apply",
                            "POST /api/automation/toggle"} -> ~restReq.body
      [] restReq.route = "POST /api/resumes/upload" ->
             restReq.file /\ restReq.readThrows
      [] restReq.route \in {"POST /api/job-search/config",
                            "POST /api/system/config"} -> ~restReq.valid
      [] restReq.route \in ReadRoutes -> restReq.throws
      [] OTHER -> FALSE

\* the apply request in progress passed its checks and ran the automation
ApplyAutomated ==
    /\ restReq.route = "POST /api/applications/apply"
    /\ restReq.body
    /\ restReq.jobId # NoId /\ restReq.resumeId # NoId
    /\ JobFound /\ ResumeFound

\* the automation of the apply request in progress navigated and filled
AutomationSucceeds ==
    /\ restReq.launch = "ok"
    /\ restReq.navigation = "ok"
    /\ restReq.filling = "ok"

\* C10: every request is answered with exactly one response; the response is
\* JSON except for a successful GET /api/resumes/:id/download, which streams
\* the file; an exception thrown inside a handler is answered with status
\* 500; POST /api/applications/apply answers once on every path: 500 for an
\* unreadable body, 400 for missing fields, 404 for an unknown job or resume,
\* 200 when the automation succeeds and 500 when it fails, whatever
\* closeBrowser meets.
C10_ExactlyOneResponse ==
    restReq # None =>
        /\ Len(restRes) = 1
        /\ IF DownloadSucceeds THEN restRes[1] = FileStream
           ELSE restRes[1].kind = "json"
        /\ ThrownInHandler => restRes[1].status = 500
        /\ restReq.route = "POST /api/applications/apply" =>
              restRes[1].status =
                 CASE ~restReq.body -> 500
                   [] restReq.jobId = NoId \/ restReq.resumeId = NoId -> 400
                   [] ~JobFound \/ ~ResumeFound -> 404
                   [] AutomationSucceeds -> 200
                   [] OTHER -> 500

\* C10 witness: an apply request whose automation failed and whose browser
\* then failed to close was answered once, with the 500 of the automation,
\* and left its application pending.
C10_Witness ==
    /\ restReq # None
    /\ ApplyAutomated
    /\ ~AutomationSucceeds
    /\ restReq.closing = "throws"
    /\ restRes = <<Json(500)>>
    /\ Len(storage.applications) = 1
    /\ storage.applications[1].status = "pending"

\* C20: the activeProvider of GET /api/llm/status is the provider generateText
\* selects in the same environment (Hugging Face answering its test request
\* exactly when it answers a generation request), and it is 'fallback'
\* exactly when generateText returns the canned fallback text.
C20_StatusNamesSelectedProvider ==
    ( /\ restReq # None
      /\ restReq.route = "GET /api/llm/status"
      /\ (restReq.hfProbe = "200") <=> (llmEnv.hfReply = "body") ) =>
        LET status == restRes[1].body
            generated == generateText(llmEnv, [template |-> {}, user |-> <<>>])
        IN  /\ (status.activeProvider = "fallback") <=> generated.threw
            /\ (status.activeProvider # "fallback")
                  => status.activeProvider = generated.provider

(***************************************************************************)
(* One call of IntelligentApplicationService                               *)
(* (server/services/intelligentApplications.ts)                            *)
(***************************************************************************)

\* Bound on the number of jobs handed to one batch
MaxBatchJobs == 6

\* OpenAI answers the requests of this call, or every one of them throws
ApplyEnvs ==
    { [NoLLMEnv EXCEPT !.OPENAI_API_KEY = TRUE, !.openaiProbe = "ok",
                       !.openaiReply = "body"],
      NoLLMEnv }

\* Storage as a call can find it: without a resume; with one resume that is
\* not marked default; with two resumes of which the second is the default
\* one; and with an application already made for job 1
ApplyStorages ==
    LET skills == << <<"R","e","a","c","t">>, <<"S","Q","L">>, <<"G","i","t">> >>
        content == <<"R","e","a","c","t"," ","S","Q","L"," ","G","i","t">>
        oneResume == createResume(EmptyStorage, content, skills, FALSE)
        twoResumes == createResume(createResume(EmptyStorage, <<>>, <<>>, FALSE),
                                   content, skills, TRUE)
    IN  { EmptyStorage, oneResume, twoResumes,
          createApplication(twoResumes, 1, 2, "submitted") }

\* A job whose page has an application link and one without; the known
\* skills of the first are the three of the resume, of the second one of them
ApplyJob(id, withLink) ==
    [ id |-> id,
      description  |-> IF withLink
                       THEN <<"R","e","a","c","t"," ","S","Q","L"," ","G","i","t">>
                       ELSE <<"R","e","a","c","t">>,
      requirements |-> <<>>,
      url |-> IF withLink THEN <<"/","j","o","b","/","a","p","p","l","y">>
              ELSE <<"/","j","o","b","/","7">> ]

\* What OpenAIService.generateText gives analyzeJobMatch for one job: it
\* throws, it returns text that is not JSON, or a JSON object with a score
\* around the cut-off, two or three matching skills and a salary verdict
ApplyReplies ==
    [ kind        : {"throws", "not_json"},
      score       : {[kind |-> "missing", n |-> 0]},
      skillsMatch : {<<>>},
      salaryMatch : {"missing"} ]
    \cup
    [ kind        : {"json"},
      score       : { [kind |-> "number", n |-> 74], [kind |-> "number", n |-> 75],
                      [kind |-> "missing", n |-> 0] },
      skillsMatch : { << <<"R","e","a","c","t">>, <<"S","Q","L">> >>,
                      << <<"R","e","a","c","t">>, <<"S","Q","L">>, <<"G","i","t">> >> },
      salaryMatch : {"true", "false"} ]

\* the answer that passes the criteria of shouldAutoApply
ApprovingReply ==
    [ kind |-> "json", score |-> [kind |-> "number", n |-> 75],
      skillsMatch |-> << <<"R","e","a","c","t">>, <<"S","Q","L">>, <<"G","i","t">> >>,
      salaryMatch |-> "true" ]

\* The jobs of a batch, whose plan says of job i whether the LLM approves of
\* it or not; in a batch that relists, the second job is the first one listed
\* once more
BatchJobs(plan, relists) ==
    [i \in 1..Len(plan) |-> ApplyJob(IF relists /\ i = 2 THEN 1 ELSE i, TRUE)]

BatchReplies(plan) ==
    [i \in 1..Len(plan) |->
        IF plan[i] = "reject"
        THEN [ApprovingReply EXCEPT !.score = [kind |-> "number", n |-> 74]]
        ELSE ApprovingReply]

ApplyInit ==
    /\ llmEnv \in ApplyEnvs
    /\ llmCall = None
    /\ llmOut = None
    /\ matchCall = None
    /\ matchOut = None
    /\ storage \in ApplyStorages
    /\ ServerIdle

\* shouldAutoApply(job, userId)
ShouldAutoApplyCall(job, reply) ==
    /\ applyCall = None
    /\ applyCall' = [op |-> "shouldAutoApply", job |-> job, reply |-> reply]
    /\ applyOut' = shouldAutoApply(storage, job, llmEnv, reply)
    /\ UNCHANGED storage

\* attemptAutoApplication(job, userId)
AttemptAutoApplicationCall(job, reply, browser) ==
    /\ applyCall = None
    /\ applyCall' = [op |-> "attemptAutoApplication", job |-> job,
                     reply |-> reply, browser |-> browser]
    /\ LET attempt == attemptAutoApplication(storage, job, llmEnv, reply, browser)
       IN  /\ applyOut' = attempt.result
           /\ storage' = attempt.storage

\* processJobBatchForAutoApplications(userId, jobs)
ProcessJobBatchCall(plan, relists, browser) ==
    /\ applyCall = None
    /\ applyCall' = [op |-> "processJobBatchForAutoApplications",
                     jobs |-> BatchJobs(plan, relists),
                     replies |-> BatchReplies(plan), browser |-> browser]
    /\ LET batch == processJobBatchForAutoApplications(storage,
                        BatchJobs(plan, relists), llmEnv, BatchReplies(plan),
                        browser, 1, 0, <<>>)
       IN  /\ applyOut' = batch.results
           /\ storage' = batch.storage

ApplyNext ==
    \/ \E job \in {ApplyJob(1, TRUE), ApplyJob(2, FALSE)}, reply \in ApplyReplies :
          /\ ShouldAutoApplyCall(job, reply)
          /\ UNCHANGED <<llmVars, matchVars, schedVars, restVars, scrapeVars>>
    \/ \E job \in {ApplyJob(1, TRUE), ApplyJob(2, FALSE)}, reply \in ApplyReplies,
          browser \in {"throws", "true", "false"} :
          /\ AttemptAutoApplicationCall(job, reply, browser)
          /\ UNCHANGED <<llmVars, matchVars, schedVars, restVars, scrapeVars>>
    \/ \E plan \in UNION { [1..n -> {"approve", "reject"}] : n \in 0..MaxBatchJobs },
          relists \in BOOLEAN, browser \in {"throws", "true"} :
          /\ ProcessJobBatchCall(plan, relists, browser)
          /\ UNCHANGED <<llmVars, matchVars, schedVars, restVars, scrapeVars>>

SpecApply == ApplyInit /\ [][ApplyNext]_vars

(***************************************************************************)
(* Properties of the auto-applications, checked under SpecApply            *)
(***************************************************************************)

ApplyCalled(op) == applyCall # None /\ applyCall.op = op

\* the LLM analysis of analyzeJobMatch fails: the request throws or its
\* text is not JSON
LLMAnalysisFailed(env, reply) ==
    MatchReplyOf(env, reply).kind \in {"throws", "not_json"}

\* the criteria as stated: score >= 75, at least 3 matching skills, salaryMatch
MeetsCriteria(match) ==
    /\ NumLeq(Num(75), match.score)
    /\ Len(match.skillsMatch) >= 3
    /\ match.salaryMatch

\* C15: shouldAutoApply returns shouldApply = true exactly when the user has
\* a resume and the match of the default resume has score >= 75, at least 3
\* matching skills and salaryMatch true; with no resume, or when the analysis
\* failed, it returns shouldApply = false with score 0.
C15_ShouldAutoApplyCriteria ==
    ApplyCalled("shouldAutoApply") =>
        LET noResume == Len(storage.resumes) = 0
            failed == LLMAnalysisFailed(llmEnv, applyCall.reply)
        IN  /\ applyOut.shouldApply <=>
                  /\ ~noResume
                  /\ MeetsCriteria(analyzeJobMatch(applyCall.job,
                         DefaultResume(storage.resumes),
                         MatchReplyOf(llmEnv, applyCall.reply)))
            /\ (noResume \/ failed) =>
                  (~applyOut.shouldApply /\ applyOut.score = Num(0))

\* an attemptAutoApplication call is made in this step
AttemptStep == applyCall = None /\ applyCall' # None
                   /\ applyCall'.op = "attemptAutoApplication"

\* what shouldAutoApply answers for the job of that call
AttemptEvaluation ==
    shouldAutoApply(storage, applyCall'.job, llmEnv, applyCall'.reply)

\* C16: when shouldAutoApply turns the job down, attemptAutoApplication
\* leaves storage as it was (no cover letter, no application, no automation
\* log) and returns success = false with the reason and the score of the
\* evaluation.
C16_RejectedJobLeavesStorage ==
    [][ (AttemptStep /\ ~AttemptEvaluation.shouldApply) =>
            /\ storage' = storage
            /\ applyOut'.success = FALSE
            /\ applyOut'.error = AttemptEvaluation.reason
            /\ applyOut'.matchScore = AttemptEvaluation.score
      ]_vars

\* C16 witness: the user has resumes, the analysis scored the job under the
\* cut-off, and attemptAutoApplication returned without applying.
C16_Witness ==
    /\ ApplyCalled("attemptAutoApplication")
    /\ Len(storage.resumes) = 2
    /\ applyCall.reply.kind = "json"
    /\ applyOut.success = FALSE
    /\ applyOut.error = "Score too low"
    /\ applyOut.matchScore = Num(74)
    /\ storage.coverLetters = <<>>
    /\ storage.automationLogs = <<>>

\* C17: when shouldAutoApply approves the job, attemptAutoApplication adds
\* exactly one cover letter, exactly one application (for the job and the
\* default resume, created with status 'pending') and exactly one automation
\* log, of status 'success', and returns success = true with the id of that
\* application, whatever the browser automation does.
C17_ApprovedJobCreatesOneApplication ==
    [][ (AttemptStep /\ AttemptEvaluation.shouldApply) =>
            LET n == Len(storage.applications)
                application == storage'.applications[n + 1]
            IN  /\ Len(storage'.coverLetters) = Len(storage.coverLetters) + 1
                /\ SubSeq(storage'.coverLetters, 1, Len(storage.coverLetters))
                       = storage.coverLetters
                /\ storage'.coverLetters[Len(storage'.coverLetters)].jobId
                       = applyCall'.job.id
                /\ Len(storage'.applications) = n + 1
                /\ SubSeq(storage'.applications, 1, n) = storage.applications
                /\ application.jobId = applyCall'.job.id
                /\ application.resumeId = DefaultResume(storage.resumes).id
                /\ application.status \in {"pending", "submitted"}
                /\ storage'.automationLogs = Append(storage.automationLogs,
                       [action |-> "auto_application", status |-> "success"])
                /\ applyOut'.success = TRUE
                /\ applyOut'.applicationId = application.id
      ]_vars

\* C17 witness: the job was approved, the browser automation threw, and the
\* call returned success with the new application, made for the default
\* resume (the second one) beside the application that was there before.
C17_Witness ==
    /\ ApplyCalled("attemptAutoApplication")
    /\ applyCall.browser = "throws"
    /\ Includes(applyCall.job.url, kw_apply)
    /\ applyOut.success = TRUE
    /\ applyOut.applicationId = 2
    /\ Len(storage.applications) = 2
    /\ storage.applications[2].resumeId = 2
    /\ Len(storage.coverLetters) = 1
    /\ Len(storage.automationLogs) = 1

\* C18: after an approved attemptAutoApplication the new application has
\* status 'submitted' when the job URL contains 'apply' and submitApplication
\* returned true, and status 'pending' when the URL has no 'apply' or the
\* browser automation returned false or threw.
C18_SubmittedWhenBrowserSucceeds ==
    (ApplyCalled("attemptAutoApplication") /\ applyOut.success) =>
        LET application == storage.applications[applyOut.applicationId]
        IN  application.status =
                IF Includes(applyCall.job.url, kw_apply) /\ applyCall.browser = "true"
                THEN "submitted" ELSE "pending"

\* the number of results of a batch that report success
RECURSIVE Successes(_)
Successes(results) ==
    IF results = <<>> THEN 0
    ELSE (IF Head(results).success THEN 1 ELSE 0) + Successes(Tail(results))

\* C19: a batch makes at most 5 applications: at most 5 of its results
\* report success, storage holds at most 5 applications more than before
\* the batch, and when 5 have succeeded the fifth success is the last job
\* processed.
C19_BatchAppliesAtMostFive ==
    [][ (applyCall = None /\ applyCall' # None
            /\ applyCall'.op = "processJobBatchForAutoApplications") =>
            /\ Successes(applyOut') <= 5
            /\ Len(storage'.applications) <= Len(storage.applications) + 5
            /\ Len(storage'.applications)
                   = Len(storage.applications) + Successes(applyOut')
            /\ Successes(applyOut') = 5 => applyOut'[Len(applyOut')].success
      ]_vars

\* C19 witness: a batch of six jobs, each of which the analysis approves,
\* ended after the fifth application; the sixth job was not processed.
C19_Witness ==
    /\ ApplyCalled("processJobBatchForAutoApplications")
    /\ Len(applyCall.jobs) = 6
    /\ \A i \in 1..6 : applyCall.jobs[i].id = i /\ applyCall.replies[i] = ApprovingReply
    /\ Len(applyOut) = 5
    /\ \A i \in 1..5 : applyOut[i].success /\ applyOut[i].jobId = i
    /\ Len(storage.applications) = 5

(***************************************************************************)
(* scrapeAllJobBoards on its own: the four board scrapes settle, each cut  *)
(* to its share of the limit, and the results are merged                   *)
(***************************************************************************)

\* the largest limit a call is made with
MaxLimit == 10

\* What the four boards hold for a search, as the promise of each scrape
\* settles before the scrape's own limit is applied: rejected, or the cards
\* with a title and a company in page order. Titles and companies recur
\* within a board and across boards, in the same and in another case.
ScrapePages ==
    LET card(title, company, jobBoard) ==
            [ title |-> title, company |-> company, description |-> <<>>,
              salary |-> <<>>, url |-> <<>>, externalId |-> "jk",
              jobBoard |-> jobBoard ]
        Acme == <<"A","c","m","e">>
        Beta == <<"B","e","t","a">>
        Dev  == <<"D","e","v">>
        QA   == <<"Q","A">>
        Ops  == <<"O","p","s">>
        SRE  == <<"S","R","E">>
        PM   == <<"P","M">>
    IN  [ indeed :
            { BoardRejected, Fulfilled(<<>>),
              Fulfilled(<< card(Dev, Acme, "Indeed"), card(QA, Acme, "Indeed"),
                           card(<<"d","e","v">>, <<"A","C","M","E">>, "Indeed"),
                           card(Dev, Beta, "Indeed") >>),
              Fulfilled(<< card(Dev, Acme, "Indeed"), card(QA, Acme, "Indeed"),
                           card(Ops, Acme, "Indeed"), card(Dev, Beta, "Indeed") >>) },
          remoteOk :
            { BoardRejected,
              Fulfilled(<< card(<<"D","E","V">>, <<"a","c","m","e">>, "RemoteOK"),
                           card(SRE, Acme, "RemoteOK"), card(QA, Beta, "RemoteOK") >>),
              Fulfilled(<< card(SRE, Acme, "RemoteOK"), card(QA, Beta, "RemoteOK"),
                           card(Ops, Beta, "RemoteOK") >>) },
          linkedin :
            { BoardRejected,
              Fulfilled(<< card(QA, <<"A","C","M","E">>, "LinkedIn"),
                           card(SRE, Beta, "LinkedIn") >>),
              Fulfilled(<< card(SRE, Beta, "LinkedIn"), card(PM, Acme, "LinkedIn") >>) },
          stackoverflow :
            { BoardRejected,
              Fulfilled(<< card(<<"d","e","v">>, <<"b","e","t","a">>, "Stack Overflow") >>),
              Fulfilled(<< card(PM, Beta, "Stack Overflow") >>) } ]

ScrapeInit ==
    /\ llmEnv = NoLLMEnv
    /\ llmCall = None
    /\ llmOut = None
    /\ matchCall = None
    /\ matchOut = None
    /\ storage = EmptyStorage
    /\ ServerIdle

\* scrapeAllJobBoards(keywords, locations, limit): each board scrape stops
\* pushing at Math.floor(limit * share) jobs, Promise.allSettled hands over
\* how the four settled, and the merged list is returned
ScrapeAllJobBoardsCall(pages, limit) ==
    /\ scrapeCall = None
    /\ LET scraped(page, boardLimit) ==
               IF page.status = "fulfilled"
               THEN Fulfilled(Slice(page.value, boardLimit))
               ELSE page
           boards == [ indeed        |-> scraped(pages.indeed, (limit * 4) \div 10),
                       remoteOk      |-> scraped(pages.remoteOk, (limit * 3) \div 10),
                       linkedin      |-> scraped(pages.linkedin, (limit * 2) \div 10),
                       stackoverflow |-> scraped(pages.stackoverflow, limit \div 10) ]
       IN  /\ scrapeCall' = [boards |-> boards, limit |-> limit]
           /\ scrapeOut' = Resolved(scrapeAllJobBoards(boards, limit))

ScrapeNext ==
    \E pages \in ScrapePages, limit \in 0..MaxLimit :
        /\ ScrapeAllJobBoardsCall(pages, limit)
        /\ UNCHANGED <<llmVars, matchVars, storage, schedVars, restVars, applyVars>>

SpecScrape == ScrapeInit /\ [][ScrapeNext]_vars

(***************************************************************************)
(* Properties of scrapeAllJobBoards, checked under SpecScrape              *)
(***************************************************************************)

====
